---- MODULE Spec2Model ----
(***************************************************************************)
(* A model of the pdf-toolbox utilities: the PDF.js worker-source          *)
(* selection and the preview generators of src/utils/pdfUtils.ts, the      *)
(* thumbnail cache and its batch generator, the merge page's file list     *)
(* and the split page with splitPDF.                                       *)
(*                                                                         *)
(* Every await of the code is one step: an action is the code that runs    *)
(* from the moment a promise settles up to the next await.  Outcomes of    *)
(* the environment (a fetch, a file read, pdf.js loading or rendering)     *)
(* are inputs drawn with \E.                                               *)
(***************************************************************************)
EXTENDS Integers, Sequences, FiniteSets, TLC

(***************************************************************************)
(* Bounds of the model.                                                    *)
(***************************************************************************)
\* preview calls that may be in flight besides the module-load initialisation
NCalls == 1
\* pages of the PDF whose thumbnails are requested
MaxPage == 2
\* largest batchSize handed to generatePageThumbnailsBatch
MaxBatch == 2
\* longest merge list followed (the code sets no limit on the list)
MaxList == 11
\* most pages of a PDF handed to the split page
MaxPages == 4
\* most pages of a PDF handed to the rotate page or to rotatePDF
MaxRotPages == 2
\* most files picked or dropped at once on a FileDropZone
MaxSel == 2
\* most pages of a PDF handed to convertPdfToImages
MaxImgPages == 2
\* most entries of the page list handed to convertPdfToImages
MaxReq == 2
\* most image files handed to convertImagesToPDF
MaxImgs == 2
\* most pages of a PDF handed to a preview generator
MaxDocPages == 2
\* most pages of a PDF opened in the page organizer
MaxOrgPages == 2
\* most duplications in the organizer after a file was selected
MaxDups == 2
\* most items (files, pages, ranges, chunks) one processing call loops over
MaxItems == 3

(***************************************************************************)
(* Program constants.                                                      *)
(***************************************************************************)
\* pdfUtils.ts:8-15, in their listed order
workerSources ==
  << "/pdf.worker.min.js",
     "https://cdnjs.cloudflare.com/ajax/libs/pdf.js/4.2.67/pdf.worker.min.js",
     "https://unpkg.com/pdfjs-dist@4.2.67/build/pdf.worker.min.js" >>

\* pdfUtils.ts:412 and 548
maxRetries == 2

\* maxFiles of both FileDropZones of the merge page
maxFiles == 10

\* maxFiles handed to validateFiles by handleFilesSelected
pageMaxFiles == 20

\* maxSizePerFile of the drop zones and maxSizeBytes of validateFiles: 100MB
maxSizePerFile == 100 * 1024 * 1024

VARIABLES
  workerSrc,       \* pdfjsLib.GlobalWorkerOptions.workerSrc
  call,            \* the initializeWorker / preview calls, by process
  thumbnailCache,  \* the Map of pdfUtils.ts:741
  tcall,           \* the call of generatePageThumbnailWithCache
  batch,           \* the call of generatePageThumbnailsBatch
  files,           \* MergePage: the files state, the merge list
  loading,         \* MergePage: the selection handleFilesSelected is reading
  isProcessing,    \* MergePage: a merge is in flight
  pdfFile,         \* SplitPage: the file state (pdfFile of handleFileSelected)
  splitMode,       \* SplitPage: 'pages' or 'every-n'
  everyN,          \* SplitPage: the everyN state
  split,            \* SplitPage: the handleSplit / splitPDF call
  compressFile,    \* CompressPage: the file state
  selectedLevel,   \* CompressPage: the id of the selected compression level
  compress,         \* CompressPage: the handleCompress / compressPDF call
  pwFile,          \* PasswordProtectPage: the file state
  userPassword,    \* PasswordProtectPage: the userPassword state
  ownerPassword,   \* PasswordProtectPage: the ownerPassword state
  pw,               \* the handleAddPassword / addPasswordToPDF call
  rotateFile,      \* RotatePage: the file state
  pageRotations,   \* RotatePage: rotation of every page, by page number
  globalRotation,  \* RotatePage: the globalRotation state
  rotate,           \* RotatePage: the handleRotate call
  rcall,            \* a call of rotatePDF(file, pageNumbers, angle)
  dropZone,         \* a mounted FileDropZone: its props and state, and its last event
  imgcall,          \* a call of convertPdfToImages
  topdf,            \* a call of convertImagesToPDF
  previewDoc,       \* the pdf.js documents of one call of a preview generator
  orgFile,         \* OrganizePage: the file state, pageCount -1 for null
  pages,           \* OrganizePage: the PageInfo list
  now,             \* the last reading of Date.now()
  duplications,    \* duplicatePage calls since the file was selected
  lastOp,           \* the last edit of the user on the page that is shown
  progressCall,     \* one call of a processing function and its onProgress calls
  suite            \* one run of a comprehensive test runner

previewVars == << workerSrc, call >>
cacheVars == << thumbnailCache, tcall, batch >>
mergeVars == << files, loading, isProcessing >>
splitVars == << pdfFile, splitMode, everyN, split >>
compressVars == << compressFile, selectedLevel, compress >>
passwordVars == << pwFile, userPassword, ownerPassword, pw >>
rotateVars == << rotateFile, pageRotations, globalRotation, rotate >>
rotcallVars == << rcall >>
dropzoneVars == << dropZone >>
imgcallVars == << imgcall >>
topdfVars == << topdf >>
docVars == << previewDoc >>
organizeVars == << orgFile, pages, now, duplications, lastOp >>
progressVars == << progressCall >>
runnerVars == << suite >>
vars == << workerSrc, call, thumbnailCache, tcall, batch, files, loading,
           isProcessing, pdfFile, splitMode, everyN, split, compressFile,
           selectedLevel, compress, pwFile, userPassword, ownerPassword,
           pw, rotateFile, pageRotations, globalRotation, rotate, rcall,
           dropZone, imgcall, topdf, previewDoc, orgFile, pages, now,
           duplications, lastOp, progressCall, suite >>

(***************************************************************************)
(* Processes: 0 is the initializeWorker() started when the module loads    *)
(* (pdfUtils.ts:53-55); 1..NCalls are calls of generatePDFPreview or       *)
(* generatePagePreview.                                                    *)
(***************************************************************************)
ModuleLoad == 0
PreviewCalls == 1 .. NCalls
Procs == {ModuleLoad} \cup PreviewCalls

\* how a fetch settles: response.ok, a response that is not ok, a rejection
FetchOutcomes == {"ok", "notok", "error"}

\* "worker": an Error whose message contains 'worker' or 'Worker'
ErrorKinds == {"worker", "other"}

NoRequest == [method |-> "none", url |-> "", body |-> "none"]

\* fetch(src, { method: 'HEAD' }): no body, and the URL is src
HeadRequest(src) == [method |-> "HEAD", url |-> src, body |-> "none"]

IdleCall ==
  [ pc         |-> "idle",
    fn         |-> "none",     \* which function the call is
    retryCount |-> 0,
    cur        |-> "",         \* workerSrc as the current initializeWorker read it
    idx        |-> 0,          \* position in workerSources of the probe in flight
    req        |-> NoRequest,  \* the network request in flight
    probes     |-> << >>,      \* probes settled in the current initializeWorker
    warned     |-> FALSE,      \* the latest initializeWorker logged the warning
    loads      |-> 0,          \* calls of pdfjsLib.getDocument
    status     |-> "pending",  \* of the promise the caller holds
    result     |-> "",
    lastErr    |-> "none" ]    \* what the last attempt's catch received

(***************************************************************************)
(* initializeWorker, up to its first await (pdfUtils.ts:26-41): with a     *)
(* workerSrc configured the current source is probed first, otherwise the  *)
(* loop starts with the first listed source.                               *)
(***************************************************************************)
\* initializeWorker without the test of line 30: the configured source is
\* fetched even when it is the empty string
BeginInitNoGuard(r, ws) ==
  [r EXCEPT !.pc = "precheck", !.idx = 0, !.req = HeadRequest(ws),
            !.cur = ws, !.probes = << >>, !.warned = FALSE]

BeginInit(r, ws) ==
  IF ws # ""
  THEN [r EXCEPT !.pc = "precheck", !.idx = 0, !.req = HeadRequest(ws),
                 !.cur = ws, !.probes = << >>, !.warned = FALSE]
  ELSE [r EXCEPT !.pc = "probe", !.idx = 1, !.req = HeadRequest(workerSources[1]),
                 !.cur = ws, !.probes = << >>, !.warned = FALSE]

\* initializeWorker returned: the module-load call is over, a preview call
\* goes on to file.arrayBuffer()
AfterInit(r) ==
  IF r.fn = "initializeWorker"
  THEN [r EXCEPT !.pc = "done", !.status = "resolved", !.req = NoRequest, !.idx = 0]
  ELSE [r EXCEPT !.pc = "read", !.req = NoRequest, !.idx = 0]

NoFile == [name |-> "", content |-> ""]

\* no file, page or option of a thumbnail call yet
IdleThumb ==
  [pc |-> "idle", file |-> NoFile, pageNumber |-> 0, useCache |-> TRUE, result |-> ""]

IdleBatch ==
  [ pc          |-> "idle",
    file        |-> NoFile,
    pageNumbers |-> << >>,
    batchSize   |-> 1,
    useCache    |-> TRUE,
    i           |-> 0,       \* the loop variable of line 806, at the current batch
    pending     |-> {},      \* positions of pageNumbers being generated
    got         |-> << >>,   \* position -> preview of the settled batchPromises
    results     |-> << >>,   \* the Map of line 802: pageNumber -> preview
    completed   |-> 0 ]

\* SplitPage before a file is chosen: file is null
NoPdf == [stem |-> "", ext |-> "", loads |-> FALSE, totalPages |-> 0, pageCount |-> 0]

\* no every-N options
NoOptions == [mode |-> "", hasPages |-> FALSE, hasRanges |-> FALSE, everyN |-> 0]

IdleSplit ==
  [ pc      |-> "idle",
    file    |-> NoPdf,       \* file.file as handleSplit read it
    options |-> NoOptions,   \* splitOptions
    ok      |-> FALSE,       \* splitPDF resolved
    results |-> << >> ]      \* what it resolved to

\* no save options yet
NoSaveOptions == [useObjectStreams |-> FALSE, addDefaultPage |-> FALSE, objectsPerTick |-> 0]

IdleCompress ==
  [ pc          |-> "idle",
    file        |-> NoPdf,           \* file.file as handleCompress read it
    quality     |-> "",              \* options.quality
    ok          |-> FALSE,           \* compressPDF resolved
    saveOptions |-> NoSaveOptions ]  \* what optimizedPdf.save was called with

IdlePassword ==
  [ pc            |-> "idle",
    caller        |-> "",        \* "page" for handleAddPassword
    file          |-> NoPdf,
    userPassword  |-> "",        \* options.userPassword, "" for undefined
    ownerPassword |-> "",        \* options.ownerPassword, "" for undefined
    progress      |-> 0,         \* the last onProgress / setProgress value
    ok            |-> FALSE,     \* addPasswordToPDF resolved with the bytes
    error         |-> "",        \* the page's error state, "" for null
    download      |-> "" ]       \* link.download of the link clicked

\* RotatePage before a file is chosen; rotations holds the /Rotate of
\* every page of the file
NoRotFile == [stem |-> "", ext |-> "", loads |-> FALSE, rotations |-> << >>]

IdleRotate ==
  [ pc        |-> "idle",
    file      |-> NoRotFile,  \* file.file as handleRotate read it
    rotations |-> << >>,      \* pageRotations as handleRotate read them
    groups    |-> << >>,      \* the entries of rotationGroups still to do
    doc       |-> << >>,      \* /Rotate of the pages of currentPdfBytes
    ok        |-> FALSE ]     \* downloadFile was called with doc

IdleRcall ==
  [ pc          |-> "idle",
    file        |-> NoRotFile,
    pageNumbers |-> << >>,
    angle       |-> 0,
    ok          |-> FALSE,    \* the call resolved with the bytes
    error       |-> "",       \* what it rejected with
    doc         |-> << >> ]   \* /Rotate of the pages of the bytes

\* acceptedTypes of the drop zones of the PDF pages
PdfTypes == << ".pdf", "application/pdf" >>

\* a FileDropZone as it is mounted: no error, nothing dragged, no event yet
MountedDropZone(max) ==
  [ maxFiles       |-> max,
    maxSizePerFile |-> maxSizePerFile,
    acceptedTypes  |-> PdfTypes,
    isDragActive   |-> FALSE,
    error          |-> "",       \* the error state, "" for null
    handled        |-> FALSE,    \* handleFiles has run
    offered        |-> << >>,    \* the files of the last event
    calls          |-> 0,        \* calls of onFilesSelected in the last event
    selected       |-> << >> ]   \* the argument of that call

\* no call of convertPdfToImages yet
IdleImgcall ==
  [ pc       |-> "idle",
    input    |-> [stem |-> "", ext |-> "", loads |-> FALSE, numPages |-> 0],
    format   |-> "png",
    listed   |-> FALSE,      \* options.pages is given
    pages    |-> << >>,      \* options.pages
    process  |-> << >>,      \* pagesToProcess
    i        |-> 0,          \* the loop index
    dropped  |-> {},         \* indices whose canvas gave no context or no blob
    results  |-> << >>,
    error    |-> "" ]

\* no call of convertImagesToPDF yet
IdleTopdf ==
  [ pc             |-> "idle",
    images         |-> << >>,     \* the files argument
    k              |-> 0,         \* the file the loop is at
    processedFiles |-> 0,
    docPages       |-> << >>,     \* the pages of pdfDoc: file and embedder
    logged         |-> {},        \* files reported by console.error
    progress       |-> [num |-> 0, den |-> 1],   \* last onProgress value
    returned       |-> FALSE,     \* the promise resolved with pdfBytes
    error          |-> "" ]

\* no preview call yet
IdleDoc ==
  [ pc         |-> "idle",
    fn         |-> "none",
    numPages   |-> 0,          \* of the file
    pageNumber |-> 0,
    retryCount |-> 0,
    loaded     |-> 0,          \* documents getDocument resolved with
    destroyed  |-> 0,          \* calls of pdf.destroy()
    status     |-> "pending",  \* of the promise the caller holds
    result     |-> "" ]

\* no processing call yet
IdleProgress ==
  [ pc        |-> "idle",
    fn        |-> "none",
    length    |-> 0,        \* the length of the list the loop runs over
    h         |-> 0,        \* reports made before (pc "head") or after the loop
    i         |-> 0,        \* the loop index
    processed |-> 0,        \* processedFiles or processedCount
    calls     |-> << >> ]   \* the arguments of the onProgress calls, in order

\* no run of a test runner yet
IdleSuite ==
  [ pc          |-> "idle",
    kind        |-> "none",    \* which of the three runners
    ran         |-> << >>,     \* the commands executed with their results, in order
    testsPassed |-> 0,
    testsFailed |-> 0,
    failedTests |-> << >>,
    exitCode    |-> -1 ]

Init ==
  /\ workerSrc = ""
  /\ call = [p \in Procs |->
               IF p = ModuleLoad
               THEN BeginInit([IdleCall EXCEPT !.fn = "initializeWorker"], "")
               ELSE IdleCall]
  /\ thumbnailCache = << >>
  /\ tcall = IdleThumb
  /\ batch = IdleBatch
  /\ files = << >>
  /\ loading = << >>
  /\ isProcessing = FALSE
  /\ pdfFile = NoPdf
  /\ splitMode = "pages"
  /\ everyN = 1
  /\ split = IdleSplit
  /\ compressFile = NoPdf
  /\ selectedLevel = "medium"
  /\ compress = IdleCompress
  /\ pwFile = NoPdf
  /\ userPassword = ""
  /\ ownerPassword = ""
  /\ pw = IdlePassword
  /\ rotateFile = NoRotFile
  /\ pageRotations = << >>
  /\ globalRotation = 90
  /\ rotate = IdleRotate
  /\ rcall = IdleRcall
  /\ dropZone = MountedDropZone(maxFiles)
  /\ imgcall = IdleImgcall
  /\ topdf = IdleTopdf
  /\ previewDoc = IdleDoc
  /\ orgFile = [pageCount |-> -1]
  /\ pages = << >>
  /\ now = 0
  /\ duplications = 0
  /\ lastOp = "none"
  /\ progressCall = IdleProgress
  /\ suite = IdleSuite

(***************************************************************************)
(* generatePDFPreview(file, pageNumber) or generatePagePreview(file,       *)
(* pageNumber, options) is called: retryCount 0, then initializeWorker.    *)
(***************************************************************************)
StartPreview(c) ==
  /\ c \in PreviewCalls
  /\ call[c].pc = "idle"
  /\ \E f \in {"generatePDFPreview", "generatePagePreview"} :
       call' = [call EXCEPT ![c] = BeginInit([IdleCall EXCEPT !.fn = f], workerSrc)]
  /\ UNCHANGED workerSrc

(***************************************************************************)
(* The probe of the configured source settles (pdfUtils.ts:30-38).         *)
(***************************************************************************)
PrecheckDone(c) ==
  /\ call[c].pc = "precheck"
  /\ \E o \in FetchOutcomes :
       LET r  == call[c]
           r1 == [r EXCEPT !.probes = Append(@, [src |-> r.req.url, ok |-> (o = "ok")])]
       IN  call' = [call EXCEPT ![c] =
             IF o = "ok"
             THEN AfterInit(r1)
             ELSE [r1 EXCEPT !.pc = "probe", !.idx = 1,
                             !.req = HeadRequest(workerSources[1])]]
  /\ UNCHANGED workerSrc

\* the loop without the return of line 44: the source is set and the next
\* one probed all the same
ProbeDoneNoReturn(c) ==
  /\ call[c].pc = "probe"
  /\ \E o \in FetchOutcomes :
       LET r  == call[c]
           r1 == [r EXCEPT !.probes = Append(@, [src |-> r.req.url, ok |-> (o = "ok")])]
       IN  /\ workerSrc' = IF o = "ok" THEN workerSources[r.idx] ELSE workerSrc
           /\ call' = [call EXCEPT ![c] =
                IF r.idx < Len(workerSources)
                THEN [r1 EXCEPT !.idx = r.idx + 1,
                                !.req = HeadRequest(workerSources[r.idx + 1])]
                ELSE AfterInit([r1 EXCEPT !.warned = (o # "ok")])]

\* the loop clearing workerSrc when no source answered
ProbeDoneClears(c) ==
  /\ call[c].pc = "probe"
  /\ \E o \in FetchOutcomes :
       LET r  == call[c]
           r1 == [r EXCEPT !.probes = Append(@, [src |-> r.req.url, ok |-> (o = "ok")])]
       IN  IF o = "ok"
           THEN /\ workerSrc' = workerSources[r.idx]
                /\ call' = [call EXCEPT ![c] = AfterInit(r1)]
           ELSE IF r.idx < Len(workerSources)
           THEN /\ call' = [call EXCEPT ![c] =
                              [r1 EXCEPT !.idx = r.idx + 1,
                                         !.req = HeadRequest(workerSources[r.idx + 1])]]
                /\ UNCHANGED workerSrc
           ELSE /\ call' = [call EXCEPT ![c] =
                              AfterInit([r1 EXCEPT !.warned = TRUE])]
                /\ workerSrc' = ""

(***************************************************************************)
(* testWorkerSource(src) settles inside the loop (pdfUtils.ts:17-24 and    *)
(* 40-48).                                                                 *)
(***************************************************************************)
ProbeDone(c) ==
  /\ call[c].pc = "probe"
  /\ \E o \in FetchOutcomes :
       LET r  == call[c]
           r1 == [r EXCEPT !.probes = Append(@, [src |-> r.req.url, ok |-> (o = "ok")])]
       IN  IF o = "ok"
           THEN /\ workerSrc' = workerSources[r.idx]
                /\ call' = [call EXCEPT ![c] = AfterInit(r1)]
           ELSE IF r.idx < Len(workerSources)
           THEN /\ call' = [call EXCEPT ![c] =
                              [r1 EXCEPT !.idx = r.idx + 1,
                                         !.req = HeadRequest(workerSources[r.idx + 1])]]
                /\ UNCHANGED workerSrc
           ELSE /\ call' = [call EXCEPT ![c] =
                              AfterInit([r1 EXCEPT !.warned = TRUE])]
                /\ UNCHANGED workerSrc

(***************************************************************************)
(* The catch block of both generators (pdfUtils.ts:450-464 and 584-598):   *)
(* a worker error below the retry limit clears workerSrc and sleeps; any   *)
(* other error, or an exhausted limit, returns ''.                         *)
(***************************************************************************)
\* the retry test with <= for <
RetriesOffByOne(r, kind) == r.retryCount <= maxRetries /\ kind = "worker"

Retries(r, kind) == r.retryCount < maxRetries /\ kind = "worker"

\* a catch block that rethrows what it does not retry
CatchRethrows(r, kind) ==
  IF Retries(r, kind)
  THEN [r EXCEPT !.pc = "sleep", !.lastErr = kind, !.probes = << >>, !.cur = ""]
  ELSE [r EXCEPT !.pc = "done", !.lastErr = kind, !.status = "rejected",
                 !.probes = << >>, !.cur = ""]

Catch(r, kind) ==
  IF Retries(r, kind)
  THEN [r EXCEPT !.pc = "sleep", !.lastErr = kind, !.probes = << >>, !.cur = ""]
  ELSE [r EXCEPT !.pc = "done", !.lastErr = kind, !.status = "resolved",
                 !.result = "", !.probes = << >>, !.cur = ""]

Fail(c, kind) ==
  /\ call' = [call EXCEPT ![c] = Catch(call[c], kind)]
  /\ workerSrc' = IF Retries(call[c], kind) THEN "" ELSE workerSrc

(***************************************************************************)
(* file.arrayBuffer() settles.  A failed read is a DOMException of the     *)
(* browser, whose message does not name a worker.                          *)
(***************************************************************************)
ReadDone(c) ==
  /\ call[c].pc = "read"
  /\ \/ /\ call' = [call EXCEPT ![c] =
                      [@ EXCEPT !.pc = "load", !.loads = @ + 1,
                                !.probes = << >>, !.cur = ""]]
        /\ UNCHANGED workerSrc
     \/ Fail(c, "other")

(***************************************************************************)
(* pdfjsLib.getDocument(...).promise settles.  inRange says whether        *)
(* 1 <= pageNumber <= pdf.numPages: generatePDFPreview falls back to page  *)
(* 1 otherwise (pdfUtils.ts:425-427), generatePagePreview throws           *)
(* (pdfUtils.ts:560-562).                                                  *)
(***************************************************************************)
LoadDone(c) ==
  /\ call[c].pc = "load"
  /\ \/ \E inRange \in BOOLEAN :
          IF call[c].fn = "generatePagePreview" /\ ~inRange
          THEN Fail(c, "other")
          ELSE /\ call' = [call EXCEPT ![c] = [@ EXCEPT !.pc = "getPage"]]
               /\ UNCHANGED workerSrc
     \/ \E k \in ErrorKinds : Fail(c, k)

(***************************************************************************)
(* pdf.getPage settles; then the canvas is created and its 2D context      *)
(* obtained, which throws 'Could not get canvas context' when null.        *)
(***************************************************************************)
GetPageDone(c) ==
  /\ call[c].pc = "getPage"
  /\ \/ /\ call' = [call EXCEPT ![c] = [@ EXCEPT !.pc = "render"]]
        /\ UNCHANGED workerSrc
     \/ Fail(c, "other")
     \/ \E k \in ErrorKinds : Fail(c, k)

(***************************************************************************)
(* page.render(...).promise settles; on success the document is destroyed  *)
(* and the data URL returned.                                              *)
(***************************************************************************)
RenderDone(c) ==
  /\ call[c].pc = "render"
  /\ \/ /\ call' = [call EXCEPT ![c] =
                      [@ EXCEPT !.pc = "done", !.status = "resolved",
                                !.result = "data:image", !.lastErr = "none"]]
        /\ UNCHANGED workerSrc
     \/ \E k \in ErrorKinds : Fail(c, k)

(***************************************************************************)
(* The 1000 ms timer fires and the function calls itself with              *)
(* retryCount + 1 (pdfUtils.ts:459-460 and 593-594).                       *)
(***************************************************************************)
RetryPreview(c) ==
  /\ call[c].pc = "sleep"
  /\ call' = [call EXCEPT ![c] =
                BeginInit([call[c] EXCEPT !.retryCount = @ + 1], workerSrc)]
  /\ UNCHANGED workerSrc

NextPreview ==
  /\ \E c \in Procs :
       \/ StartPreview(c)
       \/ PrecheckDone(c)
       \/ ProbeDone(c)
       \/ ReadDone(c)
       \/ LoadDone(c)
       \/ GetPageDone(c)
       \/ RenderDone(c)
       \/ RetryPreview(c)
  /\ UNCHANGED << cacheVars, mergeVars, splitVars, compressVars, passwordVars,
                  rotateVars, rotcallVars, dropzoneVars, imgcallVars,
                  topdfVars, docVars, organizeVars, progressVars, runnerVars >>

SpecPreview == Init /\ [][NextPreview]_vars

(***************************************************************************)
(* The thumbnail cache (pdfUtils.ts:740-862).                              *)
(*                                                                         *)
(* generatePagePreview is represented here by what it resolves to: the     *)
(* data URL of the rendered page, or '' (it never rejects, see             *)
(* SpecPreview).  The data URL depends on the bytes of the file, the page, *)
(* the scale and the quality; the cache key on the name of the file, the   *)
(* page and the scale only.                                                *)
(***************************************************************************)
\* two files of the user with the same name and different bytes
Files == { [name |-> "a.pdf", content |-> "A"], [name |-> "a.pdf", content |-> "B"] }

\* options.scale as the callers leave it (pdfUtils.ts:754 and 795)
scale == "0.8"

Pages == 1 .. MaxPage

\* `${fileName}-page${pageNumber}-scale${scale}`
getThumbnailCacheKey(fileName, pageNumber, sc) ==
  fileName \o "-page" \o ToString(pageNumber) \o "-scale" \o sc

\* canvas.toDataURL('image/jpeg', quality) of the rendered page: a string
\* that the bytes of the file, the page and the scale determine
DataURL(file, pageNumber, sc) ==
  "data:image/jpeg;" \o file.content \o ";page=" \o ToString(pageNumber)
     \o ";scale=" \o sc

\* what generatePagePreview(file, pageNumber, {scale, ...}) resolves to
Preview(file, pageNumber, ok) == IF ok THEN DataURL(file, pageNumber, scale) ELSE ""

\* thumbnailCache.has(key)
CacheHas(key) == key \in DOMAIN thumbnailCache

\* a cache of one entry: setting a key drops every other entry
CacheSetEvicting(cache, key, preview) == [k \in {key} |-> preview]

\* thumbnailCache.set(key, preview)
CacheSet(cache, key, preview) ==
  [k \in DOMAIN cache \cup {key} |-> IF k = key THEN preview ELSE cache[k]]

\* if (useCache && preview) thumbnailCache.set(cacheKey, preview)
Stored(cache, useCache, key, preview) ==
  IF useCache /\ preview # "" THEN CacheSet(cache, key, preview) ELSE cache

\* getThumbnailCacheSize()
getThumbnailCacheSize == Cardinality(DOMAIN thumbnailCache)

\* if (useCache && thumbnailCache.has(cacheKey))
Hit(useCache, key) == useCache /\ CacheHas(key)

(***************************************************************************)
(* generatePageThumbnailWithCache(file, pageNumber, {useCache}) is called  *)
(* (again, once the call before has returned): a hit returns the cached    *)
(* string at once, a miss calls generatePagePreview.                       *)
(***************************************************************************)
ThumbStart ==
  /\ tcall.pc \in {"idle", "done"}
  /\ \E f \in Files, n \in Pages, u \in BOOLEAN :
       LET key == getThumbnailCacheKey(f.name, n, scale)
           r   == [IdleThumb EXCEPT !.file = f, !.pageNumber = n, !.useCache = u]
       IN  tcall' = IF Hit(u, key)
                    THEN [r EXCEPT !.pc = "done", !.result = thumbnailCache[key]]
                    ELSE [r EXCEPT !.pc = "generating"]
  /\ UNCHANGED << thumbnailCache, batch >>

\* generatePagePreview settles (pdfUtils.ts:764-775)
ThumbDone ==
  /\ tcall.pc = "generating"
  /\ \E ok \in BOOLEAN :
       LET key     == getThumbnailCacheKey(tcall.file.name, tcall.pageNumber, scale)
           preview == Preview(tcall.file, tcall.pageNumber, ok)
       IN  /\ thumbnailCache' = Stored(thumbnailCache, tcall.useCache, key, preview)
           /\ tcall' = [tcall EXCEPT !.pc = "done", !.result = preview]
  /\ UNCHANGED batch

(***************************************************************************)
(* generatePageThumbnailsBatch (pdfUtils.ts:783-852).                      *)
(***************************************************************************)
\* pageNumbers as both callers build it: Array.from({length: pageCount},
\* (_, i) => i + 1), the pages 1 .. pageCount of the file in their order
PageLists == { [i \in 1 .. n |-> i] : n \in 0 .. MaxPage }

Min(a, b) == IF a <= b THEN a ELSE b

\* the positions (1-based) of pageNumbers.slice(i, i + batchSize)
BatchPositions(b) == (b.i + 1) .. Min(b.i + b.batchSize, Len(b.pageNumbers))

\* batch.map(async ...) up to the first await of every callback: a hit is a
\* promise that is already settled, a miss a generatePagePreview in flight
BeginBatch(b) ==
  LET ps   == BatchPositions(b)
      key(pos) == getThumbnailCacheKey(b.file.name, b.pageNumbers[pos], scale)
      hits == { pos \in ps : Hit(b.useCache, key(pos)) }
  IN  [b EXCEPT !.pc = "running",
                !.pending = ps \ hits,
                !.got = [pos \in hits |-> thumbnailCache[key(pos)]]]

\* the for loop of line 812 at its head; after the loop the function returns
\* results (line 851) and nothing else of the call remains
NextBatch(b) ==
  IF b.i < Len(b.pageNumbers)
  THEN BeginBatch(b)
  ELSE [IdleBatch EXCEPT !.pc = "done", !.results = b.results,
                         !.completed = b.completed]

BatchStart ==
  /\ batch.pc \in {"idle", "done"}
  /\ \E f \in Files, pn \in PageLists, bs \in 1 .. MaxBatch, u \in BOOLEAN :
       batch' = NextBatch([IdleBatch EXCEPT !.file = f, !.pageNumbers = pn,
                                            !.batchSize = bs, !.useCache = u])
  /\ UNCHANGED << thumbnailCache, tcall >>

\* generatePagePreview settles for one page of the batch (lines 822-838)
BatchPageDone ==
  /\ batch.pc = "running"
  /\ \E pos \in batch.pending, ok \in BOOLEAN :
       LET pageNumber == batch.pageNumbers[pos]
           key        == getThumbnailCacheKey(batch.file.name, pageNumber, scale)
           preview    == Preview(batch.file, pageNumber, ok)
       IN  /\ thumbnailCache' = Stored(thumbnailCache, batch.useCache, key, preview)
           /\ batch' = [batch EXCEPT
                          !.pending = @ \ {pos},
                          !.got = [q \in DOMAIN @ \cup {pos} |->
                                     IF q = pos THEN preview ELSE @[q]]]
  /\ UNCHANGED tcall

\* results.set(pageNumber, preview) for the batchResults in their order: the
\* last position of a page number decides
SetResults(results, b) ==
  LET ps == DOMAIN b.got
      pn == { b.pageNumbers[pos] : pos \in ps }
      last(n) == CHOOSE pos \in ps :
                   /\ b.pageNumbers[pos] = n
                   /\ \A q \in ps : b.pageNumbers[q] = n => q <= pos
  IN  [n \in DOMAIN results \cup pn |->
         IF n \in pn THEN b.got[last(n)] ELSE results[n]]

\* the next batch is begun as soon as one promise of the batch has settled
BatchAnySettled(b) == b.got # << >> \/ b.pending = {}

\* await Promise.all(batchPromises) goes on once every promise has settled
BatchSettled(b) == b.pending = {}

\* Promise.all resolves: the results are stored, the progress reported and
\* the next batch begun (lines 841-849)
BatchAwait ==
  /\ batch.pc = "running"
  /\ BatchSettled(batch)
  /\ LET b1 == [batch EXCEPT !.results = SetResults(@, batch),
                             !.completed = @ + Cardinality(DOMAIN batch.got),
                             !.i = @ + batch.batchSize]
         b2 == NextBatch(b1)
     IN  batch' = [b2 EXCEPT !.pending = @ \cup batch.pending]
  /\ UNCHANGED << thumbnailCache, tcall >>

\* clearThumbnailCache()
clearThumbnailCache ==
  /\ thumbnailCache' = << >>
  /\ UNCHANGED << tcall, batch >>

NextCache ==
  /\ \/ ThumbStart
     \/ ThumbDone
     \/ BatchStart
     \/ BatchPageDone
     \/ BatchAwait
     \/ clearThumbnailCache
  /\ UNCHANGED << previewVars, mergeVars, splitVars, compressVars,
                  passwordVars, rotateVars, rotcallVars, dropzoneVars,
                  imgcallVars, topdfVars, docVars, organizeVars, progressVars,
                  runnerVars >>

SpecCache == Init /\ [][NextCache]_vars

(***************************************************************************)
(* The merge page (MergePage): the list of files, the two drop zones, the  *)
(* removal and reordering of entries and the merge.  What the page only    *)
(* displays (error, validationWarnings, progress, isComplete, metadata)    *)
(* is left out.                                                            *)
(***************************************************************************)
\* the File objects a user may offer: 1 byte, exactly 100MB, 100MB + 1 byte
UserFiles ==
  { [name |-> "a.pdf", size |-> 1],
    [name |-> "b.pdf", size |-> maxSizePerFile],
    [name |-> "c.pdf", size |-> maxSizePerFile + 1] }

\* numbers of files picked or dropped at once: one, the most a drop zone
\* takes, one more than that
SelectSizes == { 1, maxFiles, maxFiles + 1 }

Selections == { [i \in 1 .. n |-> f] : n \in SelectSizes, f \in UserFiles }

\* FileDropZone validateFiles and handleFiles: onFilesSelected is called
\* when there is no error and a valid file (every file is a PDF here)
DropZoneAccepts(sel) ==
  /\ Len(sel) <= maxFiles
  /\ \A i \in 1 .. Len(sel) : sel[i].size <= maxSizePerFile
  /\ Len(sel) > 0

\* validateFiles(selectedFiles, {maxFiles: 20, maxSizeBytes: 100MB, ...})
\* of validation.ts is valid
PageAccepts(sel) ==
  /\ Len(sel) # 0
  /\ Len(sel) <= pageMaxFiles
  /\ \A i \in 1 .. Len(sel) : sel[i].size # 0 /\ sel[i].size <= maxSizePerFile

\* files are picked or dropped: the drop zone of the empty list, or the
\* hidden one that "Add More Files" opens (disabled while a merge runs);
\* handleFilesSelected validates and begins to read the files
SelectFiles ==
  /\ loading = << >>
  /\ files = << >> \/ ~ isProcessing
  /\ \E sel \in Selections :
       /\ DropZoneAccepts(sel)
       /\ PageAccepts(sel)
       /\ Len(files) + Len(sel) <= MaxList
       /\ loading' = sel
  /\ UNCHANGED << files, isProcessing >>

\* getPageCount and generatePDFPreview have settled for every file:
\* setFiles(prev => [...prev, ...pdfFiles])
FilesLoaded ==
  /\ loading # << >>
  /\ files' = files \o loading
  /\ loading' = << >>
  /\ UNCHANGED isProcessing

\* handleRemoveFile(fileId) for the entry at position i
handleRemoveFile ==
  /\ \E i \in 1 .. Len(files) :
       files' = SubSeq(files, 1, i - 1) \o SubSeq(files, i + 1, Len(files))
  /\ UNCHANGED << loading, isProcessing >>

\* splice(fromIndex, 1) then splice(toIndex, 0, removed), positions from 1
Reordered(list, from, to) ==
  LET rest == SubSeq(list, 1, from - 1) \o SubSeq(list, from + 1, Len(list))
  IN  SubSeq(rest, 1, to - 1) \o << list[from] >> \o SubSeq(rest, to, Len(rest))

\* handleReorderFiles(fromIndex, toIndex)
handleReorderFiles ==
  /\ \E from \in 1 .. Len(files), to \in 1 .. Len(files) :
       /\ from # to
       /\ files' = Reordered(files, from, to)
  /\ UNCHANGED << loading, isProcessing >>

\* handleMerge: "Merge & Download" is disabled below two files and while a
\* merge runs; mergePDFs is called with files.map(f => f.file)
handleMerge ==
  /\ Len(files) >= 2
  /\ ~ isProcessing
  /\ isProcessing' = TRUE
  /\ UNCHANGED << files, loading >>

\* mergePDFs settles: finally setIsProcessing(false)
MergeDone ==
  /\ isProcessing
  /\ isProcessing' = FALSE
  /\ UNCHANGED << files, loading >>

NextMerge ==
  /\ \/ SelectFiles
     \/ FilesLoaded
     \/ handleRemoveFile
     \/ handleReorderFiles
     \/ handleMerge
     \/ MergeDone
  /\ UNCHANGED << previewVars, cacheVars, splitVars, compressVars,
                  passwordVars, rotateVars, rotcallVars, dropzoneVars,
                  imgcallVars, topdfVars, docVars, organizeVars, progressVars,
                  runnerVars >>

SpecMerge == Init /\ [][NextMerge]_vars

(***************************************************************************)
(* The split page (SplitPage) in its every-N mode, and splitPDF.  The page *)
(* selection of the 'pages' mode is left out.                              *)
(***************************************************************************)
\* the PDFs a user may choose: of 0 .. MaxPages pages, or one that
\* PDFDocument.load rejects
SplitFiles ==
  { [stem |-> "doc", ext |-> ".pdf", loads |-> TRUE, totalPages |-> n, pageCount |-> n] :
      n \in 0 .. MaxPages }
  \cup { [stem |-> "doc", ext |-> ".pdf", loads |-> FALSE, totalPages |-> 0, pageCount |-> 0] }

\* file.name
FileName(f) == f.stem \o f.ext

\* file.name.replace('.pdf', ''): the first '.pdf' goes, an extension in
\* capitals stays
WithoutPdf(f) == IF f.ext = ".pdf" THEN f.stem ELSE f.stem \o f.ext

\* what is typed into the number field: text that parseInt cannot read, or
\* an integer
Typed ==
  { [nan |-> TRUE, val |-> 0] }
  \cup { [nan |-> FALSE, val |-> v] : v \in -1 .. MaxPages + 1 }

\* parseInt(e.target.value) || 1
ParseIntOr1(t) == IF t.nan \/ t.val = 0 THEN 1 ELSE t.val

\* handleFileSelected: getPageCount is 0 for a file that does not load
handleFileSelected ==
  /\ pdfFile = NoPdf
  /\ \E f \in SplitFiles : pdfFile' = f
  /\ UNCHANGED << splitMode, everyN, split >>

\* "Change File": setFile(null)
ChangeFile ==
  /\ pdfFile # NoPdf
  /\ pdfFile' = NoPdf
  /\ UNCHANGED << splitMode, everyN, split >>

\* one of the two radio buttons
setSplitMode ==
  /\ pdfFile # NoPdf
  /\ \E m \in {"pages", "every-n"} : m # splitMode /\ splitMode' = m
  /\ UNCHANGED << pdfFile, everyN, split >>

\* the number field, enabled in the every-n mode
setEveryN ==
  /\ pdfFile # NoPdf
  /\ splitMode = "every-n"
  /\ \E t \in Typed : everyN' = ParseIntOr1(t)
  /\ UNCHANGED << pdfFile, splitMode, split >>

\* canSplit, for the every-n mode
canSplit == pdfFile # NoPdf /\ splitMode = "every-n" /\ everyN > 0

\* handleSplit in the every-n mode: the options carry mode 'ranges' and
\* everyN, neither pages nor ranges
handleSplit ==
  /\ canSplit
  /\ split.pc # "running"
  /\ split' = [IdleSplit EXCEPT
                 !.pc = "running",
                 !.file = pdfFile,
                 !.options = [mode |-> "ranges", hasPages |-> FALSE,
                              hasRanges |-> FALSE, everyN |-> everyN]]
  /\ UNCHANGED << pdfFile, splitMode, everyN >>

Least(a, b) == IF a <= b THEN a ELSE b

\* Math.floor(a / b) for a >= 0 and b # 0
MathFloor(a, b) == IF b > 0 THEN a \div b ELSE -((a + (-b) - 1) \div (-b))

\* Math.ceil(a / b) for a >= 0 and b # 0
MathCeil(a, b) == IF b > 0 THEN (a + b - 1) \div b ELSE -(a \div (-b))

\* the chunk of loop index i (from 0): its name and the pages copied into
\* it, as page numbers of the source
Chunk(f, totalPages, n, i) ==
  LET start == i * n
      end   == Least(start + n - 1, totalPages - 1)
  IN  [ name  |-> WithoutPdf(f) \o "_part_" \o ToString(i + 1) \o ".pdf",
        pages |-> [j \in 1 .. (end - start + 1) |-> start + j] ]

\* splitPDF(file, options) for options without pages and ranges: the
\* branch "else if (everyN)" of pdfUtils.ts:162-181
splitPDF(f, options) ==
  IF /\ ~ (options.mode = "pages" /\ options.hasPages)
     /\ ~ (options.mode = "ranges" /\ options.hasRanges)
     /\ options.everyN # 0
  THEN LET numChunks == MathCeil(f.totalPages, options.everyN)
       IN  [c \in 1 .. numChunks |-> Chunk(f, f.totalPages, options.everyN, c - 1)]
  ELSE << >>

\* splitPDF settles: it rejects when the file does not load, and may
\* reject when pdf-lib fails to copy or save
SplitDone ==
  /\ split.pc = "running"
  /\ \E fails \in BOOLEAN :
       split' = IF split.file.loads /\ ~ fails
                THEN [split EXCEPT !.pc = "done", !.ok = TRUE,
                                   !.results = splitPDF(split.file, split.options)]
                ELSE [split EXCEPT !.pc = "done", !.ok = FALSE]
  /\ UNCHANGED << pdfFile, splitMode, everyN >>

NextSplit ==
  /\ \/ handleFileSelected
     \/ ChangeFile
     \/ setSplitMode
     \/ setEveryN
     \/ handleSplit
     \/ SplitDone
  /\ UNCHANGED << previewVars, cacheVars, mergeVars, compressVars,
                  passwordVars, rotateVars, rotcallVars, dropzoneVars,
                  imgcallVars, topdfVars, docVars, organizeVars, progressVars,
                  runnerVars >>

SpecSplit == Init /\ [][NextSplit]_vars

(***************************************************************************)
(* The compress page (CompressPage) and compressPDF.                       *)
(***************************************************************************)
\* CompressPage.tsx:9-28, in the order the page lists them
compressionLevels ==
  << [id |-> "low",    name |-> "Low Compression",
      description |-> "Best quality, larger file size"],
     [id |-> "medium", name |-> "Medium Compression",
      description |-> "Balanced quality and size"],
     [id |-> "high",   name |-> "High Compression",
      description |-> "Smallest size, reduced quality"] >>

LevelIds == { compressionLevels[i].id : i \in 1 .. Len(compressionLevels) }

\* handleFileSelected of the compress page
CompressFileSelected ==
  /\ compressFile = NoPdf
  /\ \E f \in SplitFiles : compressFile' = f
  /\ UNCHANGED << selectedLevel, compress >>

\* "Change File": setFile(null)
CompressChangeFile ==
  /\ compressFile # NoPdf
  /\ compressFile' = NoPdf
  /\ UNCHANGED << selectedLevel, compress >>

\* a level card is clicked: setSelectedLevel(level)
setSelectedLevel ==
  /\ compressFile # NoPdf
  /\ \E id \in LevelIds : id # selectedLevel /\ selectedLevel' = id
  /\ UNCHANGED << compressFile, compress >>

\* handleCompress: compressPDF(file.file, {quality: selectedLevel.id})
handleCompress ==
  /\ compressFile # NoPdf
  /\ compress.pc # "running"
  /\ compress' = [IdleCompress EXCEPT !.pc = "running", !.file = compressFile,
                                      !.quality = selectedLevel]
  /\ UNCHANGED << compressFile, selectedLevel >>

\* the switch of pdfUtils.ts:233-261 on options.quality
SaveOptions(quality) ==
  LET base == [useObjectStreams |-> TRUE, addDefaultPage |-> FALSE, objectsPerTick |-> 50]
  IN  CASE quality = "low"    -> [base EXCEPT !.useObjectStreams = TRUE]
        [] quality = "medium" -> [base EXCEPT !.useObjectStreams = TRUE]
        [] quality = "high"   -> [base EXCEPT !.useObjectStreams = FALSE]
        [] OTHER              -> base

\* compressPDF settles: it rejects when the file does not load, and may
\* reject when pdf-lib fails to copy or save
CompressDone ==
  /\ compress.pc = "running"
  /\ \E fails \in BOOLEAN :
       compress' = IF compress.file.loads /\ ~ fails
                   THEN [compress EXCEPT !.pc = "done", !.ok = TRUE,
                                         !.saveOptions = SaveOptions(compress.quality)]
                   ELSE [compress EXCEPT !.pc = "done", !.ok = FALSE]
  /\ UNCHANGED << compressFile, selectedLevel >>

NextCompress ==
  /\ \/ CompressFileSelected
     \/ CompressChangeFile
     \/ setSelectedLevel
     \/ handleCompress
     \/ CompressDone
  /\ UNCHANGED << previewVars, cacheVars, mergeVars, splitVars, passwordVars,
                  rotateVars, rotcallVars, dropzoneVars, imgcallVars,
                  topdfVars, docVars, organizeVars, progressVars, runnerVars >>

SpecCompress == Init /\ [][NextCompress]_vars

(***************************************************************************)
(* The password page (PasswordProtectPage) and addPasswordToPDF.  The      *)
(* permissions are left out: addPasswordToPDF does not read them.          *)
(***************************************************************************)
\* the PDFs a user may choose here: one that loads, one that does not
PasswordFiles == { f \in SplitFiles : f.totalPages <= 1 }

\* what may be typed into a password field
Passwords == { "", "secret" }

NotSupported ==
  "Password protection is not fully supported in this version. Please use a PDF editor that supports encryption."

\* handleFileSelect
handleFileSelect ==
  /\ pwFile = NoPdf
  /\ \E f \in PasswordFiles : pwFile' = f
  /\ pw' = [pw EXCEPT !.error = ""]
  /\ UNCHANGED << userPassword, ownerPassword >>

\* the two password fields
setUserPassword ==
  /\ pwFile # NoPdf
  /\ \E p \in Passwords : p # userPassword /\ userPassword' = p
  /\ UNCHANGED << pwFile, ownerPassword, pw >>

setOwnerPassword ==
  /\ pwFile # NoPdf
  /\ \E p \in Passwords : p # ownerPassword /\ ownerPassword' = p
  /\ UNCHANGED << pwFile, userPassword, pw >>

\* resetState
resetState ==
  /\ pwFile # NoPdf
  /\ pwFile' = NoPdf
  /\ userPassword' = ""
  /\ ownerPassword' = ""
  /\ pw' = [pw EXCEPT !.error = "", !.progress = 0]

\* handleAddPassword up to the first await of addPasswordToPDF: the button
\* is disabled while processing and without a password
handleAddPassword ==
  /\ pwFile # NoPdf
  /\ userPassword # "" \/ ownerPassword # ""
  /\ pw.pc # "running"
  /\ pw' = [IdlePassword EXCEPT !.pc = "running", !.caller = "page",
                                !.file = pwFile,
                                !.userPassword = userPassword,
                                !.ownerPassword = ownerPassword,
                                !.progress = 10]
  /\ UNCHANGED << pwFile, userPassword, ownerPassword >>

\* addPasswordToPDF(file) with its default options {}
addPasswordToPDF ==
  /\ pw.pc # "running"
  /\ \E f \in PasswordFiles :
       pw' = [IdlePassword EXCEPT !.pc = "running", !.caller = "direct",
                                  !.file = f, !.progress = 10]
  /\ UNCHANGED << pwFile, userPassword, ownerPassword >>

\* what the catch block of handleAddPassword leaves: the message of the
\* error in the error state
PasswordCaught(c, message) ==
  [c EXCEPT !.pc = "done", !.ok = FALSE,
            !.error = IF c.caller = "page" THEN message ELSE @]

\* PDFDocument.load settles (pdfUtils.ts:318-332): with a password the
\* function throws, without one it goes on to save
PasswordLoaded ==
  /\ pw.pc = "running"
  /\ pw.progress = 10
  /\ pw' = IF ~ pw.file.loads
           THEN PasswordCaught(pw, "Failed to parse PDF document")
           ELSE IF pw.userPassword # "" \/ pw.ownerPassword # ""
           THEN PasswordCaught([pw EXCEPT !.progress = 30], NotSupported)
           ELSE [pw EXCEPT !.progress = 80]
  /\ UNCHANGED << pwFile, userPassword, ownerPassword >>

\* pdf.save() settles (pdfUtils.ts:333-336); the page then clicks a link
\* whose download is `protected_${file.name}` (part_016:58-70)
PasswordSaved ==
  /\ pw.pc = "running"
  /\ pw.progress = 80
  /\ pw' = [pw EXCEPT !.pc = "done", !.ok = TRUE, !.progress = 100,
                      !.download = IF pw.caller = "page"
                                   THEN "protected_" \o FileName(pw.file)
                                   ELSE @]
  /\ UNCHANGED << pwFile, userPassword, ownerPassword >>

NextPassword ==
  /\ \/ handleFileSelect
     \/ setUserPassword
     \/ setOwnerPassword
     \/ resetState
     \/ handleAddPassword
     \/ addPasswordToPDF
     \/ PasswordLoaded
     \/ PasswordSaved
  /\ UNCHANGED << previewVars, cacheVars, mergeVars, splitVars, compressVars,
                  rotateVars, rotcallVars, dropzoneVars, imgcallVars,
                  topdfVars, docVars, organizeVars, progressVars, runnerVars >>

SpecPassword == Init /\ [][NextPassword]_vars

(***************************************************************************)
(* rotatePDF (pdfUtils.ts:270-297).  A document is the sequence of the     *)
(* /Rotate entries of its pages.                                           *)
(***************************************************************************)
\* the PDFs a user may choose: up to MaxRotPages pages, all upright or all
\* stored with /Rotate 90 (a landscape scan), or a file that does not load
RotFiles ==
  { [stem |-> "doc", ext |-> ".pdf", loads |-> TRUE, rotations |-> [i \in 1 .. n |-> r]] :
      n \in 0 .. MaxRotPages, r \in {0, 90} }
  \cup { [stem |-> "doc", ext |-> ".pdf", loads |-> FALSE, rotations |-> << >>] }

\* rotationAngles.slice(1)
rotationAngles == { 90, 180, 270 }

\* pageNumbers.forEach(...) of lines 285-290: a number above pages.length is
\* skipped; for a number below 1 pages[pageNum - 1] is undefined and
\* page.setRotation throws a TypeError; setRotation(degrees(angle)) sets
\* the /Rotate of the page to angle
RECURSIVE RotateEach(_, _, _)
RotateEach(doc, pageNumbers, angle) ==
  IF pageNumbers = << >> THEN [ok |-> TRUE, doc |-> doc]
  ELSE LET pageNum == Head(pageNumbers)
       IN  IF pageNum <= Len(doc)
           THEN IF pageNum >= 1
                THEN RotateEach([doc EXCEPT ![pageNum] = angle], Tail(pageNumbers), angle)
                ELSE [ok |-> FALSE, doc |-> doc]
           ELSE RotateEach(doc, Tail(pageNumbers), angle)

\* rotatePDF on a file that loads as doc
rotatePDF(doc, pageNumbers, angle) == RotateEach(doc, pageNumbers, angle)

\* the lists of page numbers handed to rotatePDF directly
RotLists ==
  UNION { [1 .. n -> -1 .. MaxRotPages + 1] : n \in 0 .. 2 }

\* rotatePDF(file, pageNumbers, angle) is called
RcallStart ==
  /\ rcall.pc # "running"
  /\ \E f \in RotFiles, pn \in RotLists, a \in rotationAngles :
       rcall' = [IdleRcall EXCEPT !.pc = "running", !.file = f,
                                  !.pageNumbers = pn, !.angle = a]

\* PDFDocument.load settles; the pages are rotated; pdf.save settles
RcallDone ==
  /\ rcall.pc = "running"
  /\ \E fails \in BOOLEAN :
       LET r == rotatePDF(rcall.file.rotations, rcall.pageNumbers, rcall.angle)
       IN  rcall' = IF ~ rcall.file.loads \/ fails
                    THEN [rcall EXCEPT !.pc = "done", !.error = "pdf-lib"]
                    ELSE IF ~ r.ok
                    THEN [rcall EXCEPT !.pc = "done", !.error = "TypeError"]
                    ELSE [rcall EXCEPT !.pc = "done", !.ok = TRUE, !.doc = r.doc]

NextRotcall ==
  /\ \/ RcallStart
     \/ RcallDone
  /\ UNCHANGED << previewVars, cacheVars, mergeVars, splitVars, compressVars,
                  passwordVars, rotateVars, dropzoneVars, imgcallVars,
                  topdfVars, docVars, organizeVars, progressVars, runnerVars >>

SpecRotcall == Init /\ [][NextRotcall]_vars

(***************************************************************************)
(* The rotate page (RotatePage).  The selection marks of the pages are not *)
(* kept: the pages rotateSelectedPages acts on are an input.               *)
(***************************************************************************)
\* getPageCount(selectedFile)
RotPageCount(f) == IF f.loads THEN Len(f.rotations) ELSE 0

\* handleFileSelected of the rotate page: every page starts at rotation 0
RotateFileSelected ==
  /\ rotateFile = NoRotFile
  /\ \E f \in RotFiles :
       /\ rotateFile' = f
       /\ pageRotations' = [i \in 1 .. RotPageCount(f) |-> 0]
  /\ UNCHANGED << globalRotation, rotate >>

\* "Change File" / "Select Different File": setFile(null)
RotateChangeFile ==
  /\ rotateFile # NoRotFile
  /\ rotateFile' = NoRotFile
  /\ UNCHANGED << pageRotations, globalRotation, rotate >>

\* the page is shown with its controls
RotateShown == rotateFile # NoRotFile

\* (page.rotation + angle) % 360 for the pages in which
Turned(rotations, which, angle) ==
  [i \in 1 .. Len(rotations) |->
     IF i \in which THEN (rotations[i] + angle) % 360 ELSE rotations[i]]

\* rotatePage(pageNumber, angle)
rotatePage ==
  /\ RotateShown
  /\ \E pageNumber \in 1 .. Len(pageRotations), angle \in rotationAngles :
       pageRotations' = Turned(pageRotations, {pageNumber}, angle)
  /\ UNCHANGED << rotateFile, globalRotation, rotate >>

\* rotateSelectedPages(angle), shown with at least one page selected
rotateSelectedPages ==
  /\ RotateShown
  /\ \E selected \in SUBSET (1 .. Len(pageRotations)), angle \in rotationAngles :
       /\ selected # {}
       /\ pageRotations' = Turned(pageRotations, selected, angle)
  /\ UNCHANGED << rotateFile, globalRotation, rotate >>

\* the select of "Rotate all pages": setGlobalRotation(parseInt(value))
setGlobalRotation ==
  /\ RotateShown
  /\ \E angle \in rotationAngles : angle # globalRotation /\ globalRotation' = angle
  /\ UNCHANGED << rotateFile, pageRotations, rotate >>

\* applyGlobalRotation
applyGlobalRotation ==
  /\ RotateShown
  /\ pageRotations' = Turned(pageRotations, 1 .. Len(pageRotations), globalRotation)
  /\ UNCHANGED << rotateFile, globalRotation, rotate >>

\* resetRotations
resetRotations ==
  /\ RotateShown
  /\ pageRotations' = [i \in 1 .. Len(pageRotations) |-> 0]
  /\ UNCHANGED << rotateFile, globalRotation, rotate >>

\* rotationGroups: the pages with a rotation, grouped by angle, the angles
\* in the order in which the pages first show them
RECURSIVE GroupsFrom(_, _, _)
GroupsFrom(rotations, i, acc) ==
  IF i > Len(rotations) THEN acc
  ELSE LET r == rotations[i]
           known == { g \in 1 .. Len(acc) : acc[g].angle = r }
       IN  IF r = 0 THEN GroupsFrom(rotations, i + 1, acc)
           ELSE IF known # {}
           THEN GroupsFrom(rotations, i + 1,
                           [acc EXCEPT ![CHOOSE g \in known : TRUE].pages = Append(@, i)])
           ELSE GroupsFrom(rotations, i + 1,
                           Append(acc, [angle |-> r, pages |-> << i >>]))

rotationGroups(rotations) == GroupsFrom(rotations, 1, << >>)

\* rotatedCount
rotatedCount == Cardinality({ i \in 1 .. Len(pageRotations) : pageRotations[i] # 0 })

\* handleRotate up to its first await: the button is disabled without a
\* rotated page and while processing
handleRotate ==
  /\ RotateShown
  /\ rotatedCount # 0
  /\ rotate.pc # "running"
  /\ rotate' = [IdleRotate EXCEPT !.pc = "running", !.file = rotateFile,
                                  !.rotations = pageRotations,
                                  !.groups = rotationGroups(pageRotations),
                                  !.doc = rotateFile.rotations]
  /\ UNCHANGED << rotateFile, pageRotations, globalRotation >>

\* rotatePDF settles for the next entry of rotationGroups; after the last
\* one the bytes are downloaded (part_001:148-175)
RotateGroupDone ==
  /\ rotate.pc = "running"
  /\ rotate.groups # << >>
  /\ \E fails \in BOOLEAN :
       LET g == Head(rotate.groups)
           r == rotatePDF(rotate.doc, g.pages, g.angle)
           left == Tail(rotate.groups)
       IN  rotate' = IF ~ fails /\ r.ok
                     THEN [rotate EXCEPT !.doc = r.doc, !.groups = left,
                                         !.pc = IF left = << >> THEN "done" ELSE "running",
                                         !.ok = (left = << >>)]
                     ELSE [rotate EXCEPT !.pc = "done", !.ok = FALSE]
  /\ UNCHANGED << rotateFile, pageRotations, globalRotation >>

NextRotate ==
  /\ \/ RotateFileSelected
     \/ RotateChangeFile
     \/ rotatePage
     \/ rotateSelectedPages
     \/ setGlobalRotation
     \/ applyGlobalRotation
     \/ resetRotations
     \/ handleRotate
     \/ RotateGroupDone
  /\ UNCHANGED << previewVars, cacheVars, mergeVars, splitVars, compressVars,
                  passwordVars, rotcallVars, dropzoneVars, imgcallVars,
                  topdfVars, docVars, organizeVars, progressVars, runnerVars >>

SpecRotate == Init /\ [][NextRotate]_vars

(***************************************************************************)
(* FileDropZone (components/FileDropZone.tsx).  A file name is a stem and  *)
(* an extension.                                                           *)
(***************************************************************************)
\* the File objects that may be picked or dropped: a PDF, a PDF with its
\* extension in capitals and no MIME type, a PDF named .txt, a text file,
\* a PDF of exactly the size limit, a PDF one byte above it
OfferedFiles ==
  { [stem |-> "a", ext |-> ".pdf", type |-> "application/pdf", size |-> 1],
    [stem |-> "b", ext |-> ".PDF", type |-> "",                size |-> 1],
    [stem |-> "c", ext |-> ".txt", type |-> "application/pdf", size |-> 1],
    [stem |-> "d", ext |-> ".txt", type |-> "text/plain",      size |-> 1],
    [stem |-> "e", ext |-> ".pdf", type |-> "application/pdf", size |-> maxSizePerFile],
    [stem |-> "f", ext |-> ".pdf", type |-> "application/pdf", size |-> maxSizePerFile + 1] }

Offers == UNION { [1 .. n -> OfferedFiles] : n \in 0 .. MaxSel }

\* toLowerCase() on the extensions in use
ToLowerCase(str) == IF str = ".PDF" THEN ".pdf" ELSE str

\* acceptedTypes.some(...): a type that starts with '.' is compared with
\* the end of the lower-cased name, any other with file.type
IsValidType(f, acceptedTypes) ==
  \E t \in 1 .. Len(acceptedTypes) :
    LET type == acceptedTypes[t]
    IN  IF type \in { ".pdf", ".PDF", ".txt" }
        THEN ToLowerCase(f.ext) = ToLowerCase(type)
        ELSE f.type = type

\* Math.round(maxSizePerFile / 1024 / 1024)
RoundMB(bytes) == (2 * bytes + 1024 * 1024) \div (2 * 1024 * 1024)

\* validateFiles of the component (lines 24-55): the valid files and the
\* error messages, both in the order of the files
RECURSIVE ValidateEach(_, _, _)
ValidateEach(fs, dz, acc) ==
  IF fs = << >> THEN acc
  ELSE LET f == Head(fs)
           name == f.stem \o f.ext
       IN  IF f.size > dz.maxSizePerFile
           THEN ValidateEach(Tail(fs), dz,
                  [acc EXCEPT !.errors = Append(@, name \o " is too large (max "
                                 \o ToString(RoundMB(dz.maxSizePerFile)) \o "MB)")])
           ELSE IF ~ IsValidType(f, dz.acceptedTypes)
           THEN ValidateEach(Tail(fs), dz,
                  [acc EXCEPT !.errors = Append(@, name \o " is not a supported file type")])
           ELSE ValidateEach(Tail(fs), dz, [acc EXCEPT !.valid = Append(@, f)])

ValidateFiles(fs, dz) ==
  IF Len(fs) > dz.maxFiles
  THEN [valid |-> << >>,
        errors |-> << "Maximum " \o ToString(dz.maxFiles) \o " files allowed" >>]
  ELSE ValidateEach(fs, dz, [valid |-> << >>, errors |-> << >>])

\* a handleFiles that hands over the valid files of a selection with errors
HandleFilesPartial(dz, fs) ==
  LET v == ValidateFiles(fs, dz)
  IN  [dz EXCEPT !.handled = TRUE, !.offered = fs,
                 !.error = IF v.errors # << >> THEN v.errors[1] ELSE "",
                 !.calls = IF v.valid # << >> THEN 1 ELSE 0,
                 !.selected = v.valid]

\* handleFiles (lines 57-69)
HandleFiles(dz, fs) ==
  LET v == ValidateFiles(fs, dz)
      cleared == [dz EXCEPT !.handled = TRUE, !.offered = fs, !.error = "",
                            !.calls = 0, !.selected = << >>]
  IN  IF Len(v.errors) > 0
      THEN [cleared EXCEPT !.error = v.errors[1]]
      ELSE IF Len(v.valid) > 0
      THEN [cleared EXCEPT !.calls = 1, !.selected = v.valid]
      ELSE cleared

\* a page mounts its drop zone: maxFiles 1 (split, compress, rotate) or 10
MountDropZone ==
  \E max \in { 1, maxFiles } :
    /\ dropZone # MountedDropZone(max)
    /\ dropZone' = MountedDropZone(max)

handleDragOver ==
  /\ ~ dropZone.isDragActive
  /\ dropZone' = [dropZone EXCEPT !.isDragActive = TRUE]

handleDragLeave ==
  /\ dropZone.isDragActive
  /\ dropZone' = [dropZone EXCEPT !.isDragActive = FALSE]

\* handleDrop: the files of e.dataTransfer
handleDrop ==
  /\ dropZone.isDragActive
  /\ \E fs \in Offers :
       dropZone' = HandleFiles([dropZone EXCEPT !.isDragActive = FALSE], fs)

\* handleFileSelect: the files of the input
DropZoneFileSelect ==
  \E fs \in Offers : dropZone' = HandleFiles(dropZone, fs)

NextDropzone ==
  /\ \/ MountDropZone
     \/ handleDragOver
     \/ handleDragLeave
     \/ handleDrop
     \/ DropZoneFileSelect
  /\ UNCHANGED << previewVars, cacheVars, mergeVars, splitVars, compressVars,
                  passwordVars, rotateVars, rotcallVars, imgcallVars,
                  topdfVars, docVars, organizeVars, progressVars, runnerVars >>

SpecDropzone == Init /\ [][NextDropzone]_vars

(***************************************************************************)
(* convertPdfToImages (utils/imageUtils.ts).  An image of the result is    *)
(* its name and the page whose rendering it holds.                         *)
(***************************************************************************)
\* the PDFs handed to the conversion: pdf.js opens documents of at least
\* one page, or rejects
ImgFiles ==
  { [stem |-> "doc", ext |-> e, loads |-> TRUE, numPages |-> n] :
      e \in { ".pdf", ".PDF" }, n \in 1 .. MaxImgPages }
  \cup { [stem |-> "doc", ext |-> ".pdf", loads |-> FALSE, numPages |-> 0] }

\* options.pages when it is given
ReqLists == UNION { [1 .. n -> 0 .. MaxImgPages + 1] : n \in 0 .. MaxReq }

\* what the browser does with one page: everything works, getContext('2d')
\* is null, canvas.toBlob gives null, or page.render rejects
CanvasOutcomes == { "ok", "nocontext", "noblob", "renderfails" }

\* Array.from({ length: totalPages }, (_, i) => i + 1)
AllPages(totalPages) == [k \in 1 .. totalPages |-> k]

\* a loop test that also skips the last page of the document
SkipsFromLast(pageNum, totalPages) == pageNum >= totalPages

\* if (pageNum > totalPages) continue
SkipsPage(pageNum, totalPages) == pageNum > totalPages

\* `${file.name.replace('.pdf', '')}_page_${pageNum}.${extension}`
ImageName(f, pageNum, format) ==
  WithoutPdf(f) \o "_page_" \o ToString(pageNum) \o "."
    \o (IF format = "jpg" THEN "jpg" ELSE "png")

\* the call starts: file.arrayBuffer() and getDocument are awaited
ImgStart ==
  /\ imgcall.pc = "idle"
  /\ \E f \in ImgFiles, fmt \in { "jpg", "png" }, given \in BOOLEAN, req \in ReqLists :
       /\ ~ given => req = << >>
       /\ imgcall' = [IdleImgcall EXCEPT !.pc = "loading", !.input = f, !.format = fmt,
                                         !.listed = given, !.pages = req]

\* getDocument settles: pagesToProcess is pages, or every page
ImgLoaded ==
  /\ imgcall.pc = "loading"
  /\ imgcall' =
       IF ~ imgcall.input.loads
       THEN [imgcall EXCEPT !.pc = "rejected", !.error = "pdf.js"]
       ELSE [imgcall EXCEPT !.pc = "loop", !.i = 1,
                            !.process = IF imgcall.listed THEN imgcall.pages
                                        ELSE AllPages(imgcall.input.numPages)]

\* one turn of the loop (lines 118-150); getPage rejects a number below 1
ImgPage ==
  /\ imgcall.pc = "loop"
  /\ imgcall.i <= Len(imgcall.process)
  /\ LET pageNum == imgcall.process[imgcall.i]
         next == [imgcall EXCEPT !.i = @ + 1]
     IN  IF SkipsPage(pageNum, imgcall.input.numPages)
         THEN imgcall' = next
         ELSE IF pageNum < 1
         THEN imgcall' = [imgcall EXCEPT !.pc = "rejected", !.error = "Invalid page request"]
         ELSE \E outcome \in CanvasOutcomes :
                imgcall' =
                  CASE outcome = "ok" ->
                         [next EXCEPT !.results =
                            Append(@, [name |-> ImageName(imgcall.input, pageNum, imgcall.format),
                                       page |-> pageNum])]
                    [] outcome = "renderfails" ->
                         [imgcall EXCEPT !.pc = "rejected", !.error = "render"]
                    [] OTHER -> [next EXCEPT !.dropped = @ \cup { imgcall.i }]

\* after the loop: progress 100 and the results are returned
ImgDone ==
  /\ imgcall.pc = "loop"
  /\ imgcall.i > Len(imgcall.process)
  /\ imgcall' = [imgcall EXCEPT !.pc = "resolved"]

NextImgcall ==
  /\ \/ ImgStart
     \/ ImgLoaded
     \/ ImgPage
     \/ ImgDone
  /\ UNCHANGED << previewVars, cacheVars, mergeVars, splitVars, compressVars,
                  passwordVars, rotateVars, rotcallVars, dropzoneVars,
                  topdfVars, docVars, organizeVars, progressVars, runnerVars >>

SpecImgcall == Init /\ [][NextImgcall]_vars

(***************************************************************************)
(* convertImagesToPDF (utils/imageUtils.ts).                               *)
(***************************************************************************)
\* the image files: JPEG by MIME type, PNG by extension in capitals, WebP
\* (drawn on a canvas first); each intact or corrupt; and one whose bytes
\* cannot be read
ImageFiles ==
  { [stem |-> st, ext |-> tp[1], type |-> tp[2], reads |-> TRUE, intact |-> ok] :
      st \in { "p" }, ok \in BOOLEAN,
      tp \in { << ".jpg", "image/jpeg" >>, << ".PNG", "" >>, << ".webp", "image/webp" >> } }
  \cup { [stem |-> "q", ext |-> ".jpg", type |-> "image/jpeg", reads |-> FALSE, intact |-> TRUE] }

ImageLists == UNION { [1 .. n -> ImageFiles] : n \in 0 .. MaxImgs }

\* toLowerCase() of the extensions in use
LowerExt(e) == IF e = ".PNG" THEN ".png" ELSE e

\* the branch of lines 36-46 a file takes
Embedder(f) ==
  IF f.type = "image/jpeg" \/ LowerExt(f.ext) \in { ".jpg", ".jpeg" } THEN "embedJpg"
  ELSE IF f.type = "image/png" \/ LowerExt(f.ext) = ".png" THEN "embedPng"
  ELSE "canvas"

\* a loop body that adds the page before the image is embedded
AfterFileBlankPage(c, f) ==
  IF ~ f.reads THEN [c EXCEPT !.pc = "rejected", !.error = "arrayBuffer"]
  ELSE IF ~ f.intact
  THEN [c EXCEPT !.k = @ + 1, !.logged = @ \cup { c.k },
                 !.docPages = Append(@, [index |-> c.k, by |-> "none"]),
                 !.progress = [num |-> c.processedFiles * 90, den |-> Len(c.images)]]
  ELSE [c EXCEPT !.k = @ + 1, !.processedFiles = @ + 1,
                 !.docPages = Append(@, [index |-> c.k, by |-> Embedder(f)]),
                 !.progress = [num |-> c.processedFiles * 90, den |-> Len(c.images)]]

\* one turn of the loop over the files (lines 26-96): the embedding of a
\* corrupt image throws inside the try, which logs and continues
AfterFile(c, f) ==
  LET reported == [c EXCEPT !.progress = [num |-> c.processedFiles * 90,
                                          den |-> Len(c.images)]]
  IN  IF ~ f.reads THEN [reported EXCEPT !.pc = "rejected", !.error = "arrayBuffer"]
      ELSE IF ~ f.intact
      THEN [reported EXCEPT !.k = @ + 1, !.logged = @ \cup { c.k }]
      ELSE [reported EXCEPT !.k = @ + 1, !.processedFiles = @ + 1,
                            !.docPages = Append(@, [index |-> c.k, by |-> Embedder(f)])]

\* the call starts: PDFDocument.create() is awaited
TopdfStart ==
  /\ topdf.pc = "idle"
  /\ \E fs \in ImageLists :
       topdf' = [IdleTopdf EXCEPT !.pc = "loop", !.images = fs, !.k = 1]

TopdfFile ==
  /\ topdf.pc = "loop"
  /\ topdf.k <= Len(topdf.images)
  /\ topdf' = AfterFile(topdf, topdf.images[topdf.k])

\* after the loop: progress 95 and pdfDoc.save() is awaited
TopdfSave ==
  /\ topdf.pc = "loop"
  /\ topdf.k > Len(topdf.images)
  /\ topdf' = [topdf EXCEPT !.pc = "saving", !.progress = [num |-> 95, den |-> 1]]

\* save resolves: progress 100 and the bytes are returned
TopdfDone ==
  /\ topdf.pc = "saving"
  /\ topdf' = [topdf EXCEPT !.pc = "resolved", !.returned = TRUE,
                            !.progress = [num |-> 100, den |-> 1]]

NextTopdf ==
  /\ \/ TopdfStart
     \/ TopdfFile
     \/ TopdfSave
     \/ TopdfDone
  /\ UNCHANGED << previewVars, cacheVars, mergeVars, splitVars, compressVars,
                  passwordVars, rotateVars, rotcallVars, dropzoneVars,
                  imgcallVars, docVars, organizeVars, progressVars, runnerVars >>

SpecTopdf == Init /\ [][NextTopdf]_vars

(***************************************************************************)
(* The pdf.js documents of generatePDFPreview and generatePagePreview      *)
(* (pdfUtils.ts:411-465 and 542-599): the body of the two functions with   *)
(* initializeWorker as one step (it never rejects), and with the number    *)
(* of documents loaded and destroyed.                                      *)
(***************************************************************************)
\* the catch block: a worker error below the limit sleeps and retries, any
\* other error returns ''
DocCatch(r, kind) ==
  IF Retries(r, kind)
  THEN [r EXCEPT !.pc = "sleep"]
  ELSE [r EXCEPT !.pc = "done", !.status = "resolved", !.result = ""]

\* pdf.destroy()
DestroyDocument(r) == [r EXCEPT !.destroyed = @ + 1]

DocStart ==
  /\ previewDoc.pc = "idle"
  /\ \E f \in { "generatePDFPreview", "generatePagePreview" },
        n \in 1 .. MaxDocPages, p \in 0 .. MaxDocPages + 1 :
       previewDoc' = [IdleDoc EXCEPT !.pc = "init", !.fn = f, !.numPages = n, !.pageNumber = p]

\* await PDFWorkerManager.initializeWorker()
DocInit ==
  /\ previewDoc.pc = "init"
  /\ previewDoc' = [previewDoc EXCEPT !.pc = "read"]

\* await file.arrayBuffer()
DocRead ==
  /\ previewDoc.pc = "read"
  /\ \/ previewDoc' = [previewDoc EXCEPT !.pc = "load"]
     \/ previewDoc' = DocCatch(previewDoc, "other")

\* getDocument(...).promise settles; then the page number is checked:
\* generatePDFPreview falls back to page 1, generatePagePreview throws
DocLoaded ==
  /\ previewDoc.pc = "load"
  /\ \/ LET r == [previewDoc EXCEPT !.loaded = @ + 1]
            inRange == previewDoc.pageNumber >= 1 /\ previewDoc.pageNumber <= previewDoc.numPages
        IN  previewDoc' = IF inRange THEN [r EXCEPT !.pc = "getPage"]
                   ELSE IF previewDoc.fn = "generatePDFPreview"
                   THEN [r EXCEPT !.pc = "getPage", !.pageNumber = 1]
                   ELSE DocCatch(r, "other")
     \/ \E kind \in ErrorKinds : previewDoc' = DocCatch(previewDoc, kind)

\* pdf.getPage settles; a canvas without 2D context throws
DocGetPage ==
  /\ previewDoc.pc = "getPage"
  /\ \/ previewDoc' = [previewDoc EXCEPT !.pc = "render"]
     \/ \E kind \in ErrorKinds : previewDoc' = DocCatch(previewDoc, kind)

\* page.render(...).promise settles; on success the document is destroyed
\* and the data URL returned
DocRender ==
  /\ previewDoc.pc = "render"
  /\ \/ previewDoc' = [DestroyDocument(previewDoc) EXCEPT !.pc = "done", !.status = "resolved",
                                            !.result = "data:image"]
     \/ \E kind \in ErrorKinds : previewDoc' = DocCatch(previewDoc, kind)

\* the timer fires and the function calls itself with retryCount + 1
DocRetry ==
  /\ previewDoc.pc = "sleep"
  /\ previewDoc' = [previewDoc EXCEPT !.pc = "init", !.retryCount = @ + 1]

NextDoc ==
  /\ \/ DocStart
     \/ DocInit
     \/ DocRead
     \/ DocLoaded
     \/ DocGetPage
     \/ DocRender
     \/ DocRetry
  /\ UNCHANGED << previewVars, cacheVars, mergeVars, splitVars, compressVars,
                  passwordVars, rotateVars, rotcallVars, dropzoneVars,
                  imgcallVars, topdfVars, organizeVars, progressVars,
                  runnerVars >>

SpecDoc == Init /\ [][NextDoc]_vars

(***************************************************************************)
(* OrganizePage (unnamed/part_015).  The thumbnails (the preview field of  *)
(* a PageInfo, which no handler reads to place, copy or remove a card)     *)
(* are left out.  Date.now() is in milliseconds since the file was         *)
(* selected: a reading equals the one before or is one later.              *)
(***************************************************************************)
\* `page-${i + 1}`
PageId(n) == "page-" \o ToString(n)

\* the list handleFileSelected and resetPages build (lines 46-52, 181-187)
InitialPages(pageCount) ==
  [i \in 1 .. pageCount |->
     [ id                 |-> PageId(i),
       originalPageNumber |-> i,
       currentPosition    |-> i - 1,
       operation          |-> "keep",
       isDuplicate        |-> FALSE ]]

\* newPages.map((page, index) => ({ ...page, currentPosition: index }))
UpdatePositions(list) ==
  [i \in 1 .. Len(list) |-> [list[i] EXCEPT !.currentPosition = i - 1]]

\* findIndex(p => p.id === pageId), from 1; 0 for -1
FindIndex(list, pageId) ==
  IF \E i \in 1 .. Len(list) : list[i].id = pageId
  THEN CHOOSE i \in 1 .. Len(list) :
         /\ list[i].id = pageId
         /\ \A j \in 1 .. i - 1 : list[j].id # pageId
  ELSE 0

\* splice(at, 1), at from 1
Without(list, at) ==
  [i \in 1 .. Len(list) - 1 |-> IF i < at THEN list[i] ELSE list[i + 1]]

\* splice(start, 0, item), start from 0; a start beyond the end appends
InsertAt(list, start, item) ==
  LET at == IF start > Len(list) THEN Len(list) ELSE start
  IN  [i \in 1 .. Len(list) + 1 |->
         IF i <= at THEN list[i] ELSE IF i = at + 1 THEN item ELSE list[i - 1]]

\* prev.filter(p => p.id !== pageId)
RECURSIVE FilterOut(_, _)
FilterOut(list, pageId) ==
  IF list = << >> THEN << >>
  ELSE IF Head(list).id = pageId THEN FilterOut(Tail(list), pageId)
  ELSE << Head(list) >> \o FilterOut(Tail(list), pageId)

\* the ids on display
ShownIds == { pages[i].id : i \in 1 .. Len(pages) }

OrganizerShown == orgFile.pageCount >= 0

\* handleFileSelected, after getPageCount and generatePDFPreview: the
\* drop zone is shown while file is null
OrgFileSelected ==
  /\ ~ OrganizerShown
  /\ \E pageCount \in 0 .. MaxOrgPages :
       /\ orgFile' = [pageCount |-> pageCount]
       /\ pages' = InitialPages(pageCount)
  /\ duplications' = 0
  /\ lastOp' = "select"
  /\ now' = 0

\* the button of the file card: setFile(null)
OrgChangeFile ==
  /\ OrganizerShown
  /\ orgFile' = [pageCount |-> -1]
  /\ lastOp' = "close"
  /\ UNCHANGED << pages, now, duplications >>

\* the updater of handleDrop (lines 111-125)
Dropped(list, dragged, targetPosition) ==
  LET draggedIndex == FindIndex(list, dragged)
  IN  IF draggedIndex = 0 THEN list
      ELSE UpdatePositions(
             InsertAt(Without(list, draggedIndex), targetPosition, list[draggedIndex]))

\* a card is dragged onto the card at targetPosition: handleDragStart sets
\* draggedPageId, handleDrop moves the card and sets it to null again
OrgDragDrop ==
  /\ OrganizerShown
  /\ \E pageId \in ShownIds, targetPosition \in 0 .. Len(pages) - 1 :
       pages' = Dropped(pages, pageId, targetPosition)
  /\ lastOp' = "move"
  /\ UNCHANGED << orgFile, now, duplications >>

\* the list after duplicatePage found the page at pageIndex (lines 136-151)
Duplicate(list, pageIndex, t) ==
  UpdatePositions(
    InsertAt(list, pageIndex,
             [list[pageIndex] EXCEPT !.id = @ \o "-duplicate-" \o ToString(t),
                                     !.isDuplicate = TRUE]))

\* duplicatePage(page.id): Date.now() is read, not before the last reading
duplicatePage ==
  /\ OrganizerShown
  /\ duplications < MaxDups
  /\ Len(pages) <= MaxOrgPages
  /\ duplications' = duplications + 1
  /\ \E pageId \in ShownIds, t \in { now, now + 1 } :
       /\ pages' = Duplicate(pages, FindIndex(pages, pageId), t)
       /\ now' = t
       /\ lastOp' = "duplicate"
  /\ UNCHANGED orgFile

\* deletePage(page.id)
deletePage ==
  /\ OrganizerShown
  /\ \E pageId \in ShownIds :
       /\ pages' = UpdatePositions(FilterOut(pages, pageId))
       /\ lastOp' = "delete"
  /\ UNCHANGED << orgFile, now, duplications >>

\* a reset that keeps the list and only renumbers it
ResetKeepsList(list, pageCount) == UpdatePositions(list)

\* the list resetPages sets (lines 181-187)
ResetList(list, pageCount) == InitialPages(pageCount)

resetPages ==
  /\ OrganizerShown
  /\ pages' = ResetList(pages, orgFile.pageCount)
  /\ lastOp' = "reset"
  /\ UNCHANGED << orgFile, now, duplications >>

NextOrganize ==
  /\ \/ OrgFileSelected
     \/ OrgChangeFile
     \/ OrgDragDrop
     \/ duplicatePage
     \/ deletePage
     \/ resetPages
  /\ UNCHANGED << previewVars, cacheVars, mergeVars, splitVars, compressVars,
                  passwordVars, rotateVars, rotcallVars, dropzoneVars,
                  imgcallVars, topdfVars, docVars, progressVars, runnerVars >>

SpecOrganize == Init /\ [][NextOrganize]_vars

(***************************************************************************)
(* The edits of the organizer and of the rotate page before a download.    *)
(* App.tsx mounts one page per route, so one of the two is mounted at a    *)
(* time and leaving a page discards its state.                             *)
(***************************************************************************)
\* the state of every other page
otherPages == << previewVars, cacheVars, mergeVars, splitVars, compressVars,
                passwordVars, rotcallVars, dropzoneVars, imgcallVars,
                topdfVars, docVars, progressVars, runnerVars >>

RotateUnmounted ==
  /\ rotateFile = NoRotFile
  /\ pageRotations = << >>
  /\ globalRotation = 90
  /\ rotate = IdleRotate

OrganizeUnmounted ==
  /\ orgFile = [pageCount |-> -1]
  /\ pages = << >>
  /\ now = 0
  /\ duplications = 0

\* the handlers of RotatePage that set pageRotations, file or globalRotation
RotateEdit ==
  /\ \/ RotateFileSelected /\ lastOp' = "select"
     \/ RotateChangeFile /\ lastOp' = "close"
     \/ rotatePage /\ lastOp' = "rotatePage"
     \/ rotateSelectedPages /\ lastOp' = "rotateSelectedPages"
     \/ setGlobalRotation /\ lastOp' = "setGlobalRotation"
     \/ applyGlobalRotation /\ lastOp' = "applyGlobalRotation"
     \/ resetRotations /\ lastOp' = "resetRotations"
  /\ UNCHANGED << orgFile, pages, now, duplications >>

\* the route changes: the page that was shown is unmounted
LeavePage ==
  /\ ~ (RotateUnmounted /\ OrganizeUnmounted)
  /\ rotateFile' = NoRotFile
  /\ pageRotations' = << >>
  /\ globalRotation' = 90
  /\ rotate' = IdleRotate
  /\ orgFile' = [pageCount |-> -1]
  /\ pages' = << >>
  /\ now' = 0
  /\ duplications' = 0
  /\ lastOp' = "none"

NextUndo ==
  \/ RotateUnmounted /\ NextOrganize
  \/ OrganizeUnmounted /\ RotateEdit /\ UNCHANGED otherPages
  \/ LeavePage /\ UNCHANGED otherPages

SpecUndo == Init /\ [][NextUndo]_vars

(***************************************************************************)
(* The onProgress calls of the processing functions (pdfUtils.ts and       *)
(* imageUtils.ts).  A progress value is a fraction num / den, so that      *)
(* (i / length) * span + base is exact.                                    *)
(***************************************************************************)
ProcessingFunctions ==
  { "mergePDFs", "splitPDF", "compressPDF", "rotatePDF", "organizePDFPages",
    "addWatermarkToPDF", "convertImagesToPDF", "convertPdfToImages" }

Whole(n, message) == [num |-> n, den |-> 1, message |-> message]

\* the reports before the loop
ReportsBefore(fn) ==
  CASE fn = "splitPDF" -> << Whole(10, "Loading PDF...") >>
    [] fn = "compressPDF" -> << Whole(10, "Loading PDF..."),
                                Whole(30, "Analyzing PDF structure..."),
                                Whole(50, "Optimizing PDF structure...") >>
    [] fn = "rotatePDF" -> << Whole(10, "Loading PDF..."), Whole(50, "Rotating pages...") >>
    [] fn = "organizePDFPages" -> << Whole(10, "Loading PDF..."),
                                     Whole(30, "Organizing pages...") >>
    [] fn = "addWatermarkToPDF" -> << Whole(10, "Loading PDF..."),
                                      Whole(20, "Preparing watermark...") >>
    [] fn = "convertPdfToImages" -> << Whole(10, "Loading PDF...") >>
    [] OTHER -> << >>

\* the reports after the loop
ReportsAfter(fn) ==
  CASE fn = "splitPDF" -> << Whole(100, "Complete!") >>
    [] fn = "convertPdfToImages" -> << Whole(100, "Complete!") >>
    [] fn = "compressPDF" -> << Whole(85, "Applying compression settings..."),
                                Whole(95, "Finalizing compressed PDF..."),
                                Whole(100, "Complete!") >>
    [] fn = "rotatePDF" -> << Whole(90, "Saving PDF..."), Whole(100, "Complete!") >>
    [] OTHER -> << Whole(95, "Finalizing PDF..."), Whole(100, "Complete!") >>

\* base and span of the report inside the loop: base + (k / length) * span
LoopBase(fn) ==
  CASE fn \in { "splitPDF", "convertPdfToImages" } -> 10
    [] fn = "compressPDF" -> 50
    [] fn = "organizePDFPages" -> 30
    [] fn = "addWatermarkToPDF" -> 20
    [] OTHER -> 0

LoopSpan(fn) ==
  CASE fn \in { "splitPDF", "convertPdfToImages" } -> 80
    [] fn = "compressPDF" -> 30
    [] fn = "organizePDFPages" -> 60
    [] fn = "addWatermarkToPDF" -> 70
    [] OTHER -> 90

\* the functions whose report counts the items processed, not the index
CountsProcessed(fn) ==
  fn \in { "mergePDFs", "organizePDFPages", "addWatermarkToPDF", "convertImagesToPDF" }

\* a report that leaves out the division by the length
LoopValueUndivided(fn, k, length) ==
  [num |-> LoopBase(fn) + k * LoopSpan(fn), den |-> 1, message |-> "Processing..."]

\* the report of one turn of the loop
LoopValue(fn, k, length) ==
  [num |-> LoopBase(fn) * length + k * LoopSpan(fn), den |-> length,
   message |-> "Processing..."]

\* what one item of the loop does: it is processed; it is skipped before
\* the report (a page number beyond the document); its failure is caught
\* after the report (an image that cannot be embedded, a canvas without
\* context or blob); or it throws after the report
ItemOutcomes(fn) ==
  CASE fn \in { "splitPDF", "addWatermarkToPDF" } -> { "ok", "skipped", "throws" }
    [] fn = "convertImagesToPDF" -> { "ok", "caught", "throws" }
    [] fn = "convertPdfToImages" -> { "ok", "skipped", "caught", "throws" }
    [] OTHER -> { "ok", "throws" }

\* the call starts; rotatePDF reports nothing inside its forEach
ProgressStart ==
  /\ progressCall.pc = "idle"
  /\ \E fn \in ProcessingFunctions, length \in 0 .. MaxItems :
       /\ fn = "rotatePDF" => length = 0
       /\ progressCall' = [IdleProgress EXCEPT !.pc = "head", !.fn = fn, !.length = length]

\* the next report before the loop, or the loop is entered
ProgressBefore ==
  /\ progressCall.pc = "head"
  /\ LET before == ReportsBefore(progressCall.fn)
     IN  progressCall' =
           IF progressCall.h < Len(before)
           THEN [progressCall EXCEPT !.h = @ + 1, !.calls = Append(@, before[progressCall.h + 1])]
           ELSE [progressCall EXCEPT !.pc = "loop", !.h = 0]

\* one turn of the loop
ProgressItem ==
  /\ progressCall.pc = "loop"
  /\ progressCall.i < progressCall.length
  /\ \E outcome \in ItemOutcomes(progressCall.fn) :
       LET c == progressCall
           k == IF CountsProcessed(c.fn) THEN c.processed ELSE c.i
           reported == [c EXCEPT !.calls = Append(@, LoopValue(c.fn, k, c.length))]
       IN  progressCall' =
             CASE outcome = "skipped" -> [c EXCEPT !.i = @ + 1]
               [] outcome = "caught" -> [reported EXCEPT !.i = @ + 1]
               [] outcome = "throws" -> [reported EXCEPT !.pc = "rejected"]
               [] OTHER -> [reported EXCEPT !.i = @ + 1, !.processed = @ + 1]

\* the loop is over
ProgressLoopDone ==
  /\ progressCall.pc = "loop"
  /\ progressCall.i = progressCall.length
  /\ progressCall' = [progressCall EXCEPT !.pc = "tail"]

\* the next report after the loop; the function returns after the last
ProgressAfter ==
  /\ progressCall.pc = "tail"
  /\ LET after == ReportsAfter(progressCall.fn)
     IN  progressCall' =
           IF progressCall.h < Len(after)
           THEN [progressCall EXCEPT !.h = @ + 1, !.calls = Append(@, after[progressCall.h + 1])]
           ELSE [progressCall EXCEPT !.pc = "resolved"]

\* an await outside the loop body rejects: reading or loading the file,
\* creating or saving the document
ProgressThrows ==
  /\ progressCall.pc \in { "head", "tail" }
  /\ progressCall' = [progressCall EXCEPT !.pc = "rejected"]

NextProgress ==
  /\ \/ ProgressStart
     \/ ProgressBefore
     \/ ProgressItem
     \/ ProgressLoopDone
     \/ ProgressAfter
     \/ ProgressThrows
  /\ UNCHANGED << previewVars, cacheVars, mergeVars, splitVars, compressVars,
                  passwordVars, rotateVars, rotcallVars, dropzoneVars,
                  imgcallVars, topdfVars, docVars, organizeVars, runnerVars >>

SpecProgress == Init /\ [][NextProgress]_vars

(***************************************************************************)
(* The comprehensive test runners: scripts/test-all.js (runTestSuite),     *)
(* scripts/test-all.sh and scripts/test-all.ps1.                           *)
(***************************************************************************)
Runners == { "node", "bash", "powershell" }

\* what a phase's command does: it exits with code 0, it exits with another
\* code, or it cannot be started at all
CommandResults == { "ok", "exit1", "notfound" }

\* printStatus / print_status / Write-Status
printStatus(s, status, message) ==
  CASE status = "SUCCESS" -> [s EXCEPT !.testsPassed = @ + 1]
    [] status = "ERROR" -> [s EXCEPT !.testsFailed = @ + 1,
                                     !.failedTests = Append(@, message)]
    [] OTHER -> s

\* whether the runner takes the command for passed: execSync throws and
\* eval returns non-zero for every failure, while Invoke-Expression throws
\* only when the command cannot be started: a non-zero exit code of npm
\* sets $LASTEXITCODE and raises nothing
TakenForPassed(kind, result) ==
  IF kind = "powershell" THEN result # "notfound" ELSE result = "ok"

\* runTest / run_test / Invoke-Test: the state after, and the value returned
runTest(s, testName, result) ==
  LET executed == [s EXCEPT !.ran = Append(@, [name |-> testName, result |-> result])]
  IN  IF TakenForPassed(s.kind, result)
      THEN printStatus(executed, "SUCCESS", testName \o " passed")
      ELSE printStatus(executed, "ERROR", testName \o " failed")

\* of the messages a run can put into failedTests only this one includes
\* 'Production Build', matches " Production Build failed " between the
\* elements joined by spaces, and is equal to "Production Build failed"
FailedBuild(failedTests) ==
  \E j \in 1 .. Len(failedTests) : failedTests[j] = "Production Build failed"

\* the runner starts
runTestSuite ==
  /\ suite.pc = "idle"
  /\ \E kind \in Runners : suite' = [IdleSuite EXCEPT !.pc = "lint", !.kind = kind]

\* Phase 1; a failure prints a warning and goes on
PhaseLint ==
  /\ suite.pc = "lint"
  /\ \E result \in CommandResults :
       suite' = [runTest(suite, "ESLint Code Quality Check", result) EXCEPT !.pc = "tsc"]

\* Phase 2; a failure prints a warning and goes on
PhaseTypeScript ==
  /\ suite.pc = "tsc"
  /\ \E result \in CommandResults :
       suite' = [runTest(suite, "TypeScript Compilation", result) EXCEPT !.pc = "unit"]

\* Phase 3; a failure is reported a second time and the run goes on
PhaseUnit ==
  /\ suite.pc = "unit"
  /\ \E result \in CommandResults :
       LET after == runTest(suite, "Unit Tests (Vitest)", result)
       IN  suite' =
             [(IF TakenForPassed(suite.kind, result) THEN after
               ELSE printStatus(after, "ERROR", "Unit tests failed - critical error"))
              EXCEPT !.pc = "build"]

\* Phase 4; a failure is reported a second time and the run goes on
PhaseBuild ==
  /\ suite.pc = "build"
  /\ \E result \in CommandResults :
       LET after == runTest(suite, "Production Build", result)
       IN  suite' =
             [(IF TakenForPassed(suite.kind, result) THEN after
               ELSE printStatus(after, "ERROR", "Build failed - critical error"))
              EXCEPT !.pc = "e2e"]

\* Phase 5, or the warning that it is skipped
PhaseE2E ==
  /\ suite.pc = "e2e"
  /\ IF suite.testsFailed = 0 \/ ~FailedBuild(suite.failedTests)
     THEN \E result \in CommandResults :
            LET after == runTest(suite, "E2E Tests (Playwright)", result)
            IN  suite' =
                  [(IF TakenForPassed(suite.kind, result) THEN after
                    ELSE printStatus(after, "ERROR", "E2E tests failed"))
                   EXCEPT !.pc = "summary"]
     ELSE suite' = [printStatus(suite, "WARNING", "Skipping E2E tests due to build failure")
                    EXCEPT !.pc = "summary"]

\* the summary and the exit code
TestSummary ==
  /\ suite.pc = "summary"
  /\ suite' =
       IF suite.testsFailed = 0
       THEN [printStatus(suite, "SUCCESS", "All tests passed!") EXCEPT
               !.pc = "exited", !.exitCode = 0]
       ELSE [printStatus(suite, "ERROR", "Some tests failed:") EXCEPT
               !.pc = "exited", !.exitCode = 1]

NextRunner ==
  /\ \/ runTestSuite
     \/ PhaseLint
     \/ PhaseTypeScript
     \/ PhaseUnit
     \/ PhaseBuild
     \/ PhaseE2E
     \/ TestSummary
  /\ UNCHANGED << previewVars, cacheVars, mergeVars, splitVars, compressVars,
                  passwordVars, rotateVars, rotcallVars, dropzoneVars,
                  imgcallVars, topdfVars, docVars, organizeVars, progressVars >>

SpecRunner == Init /\ [][NextRunner]_vars

(***************************************************************************)
(* Properties of the worker selection and the preview generators.          *)
(***************************************************************************)
Range(seq) == { seq[i] : i \in DOMAIN seq }

\* an initializeWorker is running in p
InInit(p) == call[p].pc \in {"precheck", "probe"}

\* the initializeWorker of p has just returned (its probes are still on record)
InitReturned(p) ==
  \/ call[p].pc = "read"
  \/ p = ModuleLoad /\ call[p].pc = "done"

NoProbeOk(p) == \A i \in DOMAIN call[p].probes : ~call[p].probes[i].ok

\* C1: generatePDFPreview and generatePagePreview never reject; a call whose
\* last attempt failed, at whichever step and after any retries, resolves
\* to the empty string.
C1_NeverRejects ==
  \A c \in PreviewCalls :
    /\ call[c].status # "rejected"
    /\ call[c].pc = "done" =>
         /\ call[c].status = "resolved"
         /\ call[c].lastErr # "none" => call[c].result = ""

\* a call that failed with a worker error after both retries, and one that
\* failed with another error, are over
C1_Witness ==
  \E c \in PreviewCalls :
    /\ call[c].pc = "done"
    /\ call[c].lastErr = "worker"
    /\ call[c].retryCount = maxRetries
    /\ call[c].result = ""

\* C2 as stated: every probe an initializeWorker makes follows the listed
\* order local, cdnjs, unpkg.
C2_ListedOrderOnly ==
  \A p \in Procs :
    \A i \in DOMAIN call[p].probes :
      i <= Len(workerSources) /\ call[p].probes[i].src = workerSources[i]

\* the probes of p after the probe of the configured source, if there was one
ListProbes(p) ==
  IF call[p].cur # "" /\ call[p].probes # << >>
  THEN Tail(call[p].probes)
  ELSE call[p].probes

C2_ProbeOrder ==
  \A p \in Procs :
    LET ps == call[p].probes
        ls == ListProbes(p)
    IN  \* with a workerSrc configured, it is probed first
        /\ (call[p].cur # "" /\ ps # << >>) => ps[1].src = call[p].cur
        /\ (call[p].pc = "precheck") => (ps = << >> /\ call[p].req.url = call[p].cur)
        \* a successful probe of the configured source ends the call
        /\ (call[p].cur # "" /\ ps # << >> /\ ps[1].ok) => (Len(ps) = 1 /\ InitReturned(p))
        \* then the listed sources, in their order
        /\ Len(ls) <= Len(workerSources)
        /\ \A i \in DOMAIN ls : ls[i].src = workerSources[i]
        /\ call[p].pc = "probe" => call[p].req.url = workerSources[Len(ls) + 1]
        \* nothing is probed after a success
        /\ \A i \in DOMAIN ps : ps[i].ok => (i = Len(ps) /\ ~InInit(p))

\* workerSrc is set to a source exactly when a probe of the list succeeds,
\* and to that source
C2_SetsFirstOk ==
  /\ (workerSrc' # workerSrc /\ workerSrc' # "") =>
       \E p \in Procs :
         /\ call[p].pc = "probe"
         /\ Len(call'[p].probes) = Len(call[p].probes) + 1
         /\ call'[p].probes[Len(call'[p].probes)] = [src |-> workerSrc', ok |-> TRUE]
  /\ \A p \in Procs :
       ( /\ call[p].pc = "probe"
         /\ Len(call'[p].probes) = Len(call[p].probes) + 1
         /\ call'[p].probes[Len(call'[p].probes)].ok )
       => workerSrc' = call'[p].probes[Len(call'[p].probes)].src

\* C2, amended: a configured workerSrc is probed first and, when it answers,
\* nothing else is probed or set; otherwise the listed sources are probed in
\* their order, workerSrc is set to the first whose probe succeeds, never to
\* one whose probe failed, and no source is probed after the first success.
C2_WorkerSelection == []C2_ProbeOrder /\ [][C2_SetsFirstOk]_vars

\* the configured source failed, so did the local one, and cdnjs answered
C2_Witness ==
  \E p \in Procs :
    /\ call[p].pc = "read"
    /\ call[p].cur # ""
    /\ Len(call[p].probes) = 3
    /\ call[p].probes[3].ok
    /\ workerSrc = workerSources[2]

C3_WarnsAndGoesOn ==
  \A p \in Procs :
    \* the warning is logged exactly when every probe failed
    /\ InitReturned(p) => (call[p].warned <=> NoProbeOk(p))
    /\ InInit(p) => ~call[p].warned
    \* the preview call goes on and resolves to a string
    /\ call[p].warned => call[p].status # "rejected"
    /\ (call[p].warned /\ call[p].pc = "done") =>
          (call[p].status = "resolved" /\ call[p].result \in {"", "data:image"})

C3_NoThrowNoWrite ==
  \A p \in Procs :
    \* initializeWorker ends by returning, never in the caller's catch block
    /\ InInit(p) =>
         \/ call'[p].pc \in {"precheck", "probe", "read"}
         \/ p = ModuleLoad /\ call'[p].pc = "done" /\ call'[p].status = "resolved"
    \* the step that logs the warning leaves workerSrc as it is
    /\ (call'[p].warned /\ ~call[p].warned) => workerSrc' = workerSrc

\* C3: when no worker source is reachable, initializeWorker finishes without
\* throwing, leaves workerSrc unchanged and logs the warning; the preview
\* call that triggered it proceeds and resolves to a string.
C3_NoSourceReachable == []C3_WarnsAndGoesOn /\ [][C3_NoThrowNoWrite]_vars

\* no source answered, and the preview was generated all the same
C3_Witness ==
  \E c \in PreviewCalls :
    /\ call[c].pc = "done"
    /\ call[c].warned
    /\ call[c].result = "data:image"

C4_Bounded ==
  \A c \in PreviewCalls :
    /\ call[c].loads <= 3
    /\ call[c].retryCount <= 2
    /\ (call[c].pc = "done" /\ call[c].lastErr = "worker") =>
         (call[c].loads = 3 /\ call[c].result = "")
    /\ (call[c].pc = "done" /\ call[c].lastErr = "none") =>
         call[c].result = "data:image"

\* a call that is over makes no further attempt
C4_NoAttemptAfterEnd ==
  \A c \in PreviewCalls : call[c].pc = "done" => call'[c] = call[c]

\* C4: when every attempt fails with a worker error the document is loaded
\* exactly 3 times and the call resolves to ''; an attempt that succeeds
\* returns its image and is the last.
C4_RetriesBounded == []C4_Bounded /\ [][C4_NoAttemptAfterEnd]_vars

\* three attempts, each failed with a worker error
C4_Witness ==
  \E c \in PreviewCalls :
    /\ call[c].pc = "done"
    /\ call[c].lastErr = "worker"
    /\ call[c].loads = 3

\* C8: every network request of the application is a HEAD probe of one of
\* the worker sources, and carries neither bytes nor name of a user's file.
C8_OnlyWorkerProbes ==
  \A p \in Procs :
    /\ InInit(p) <=> call[p].req # NoRequest
    /\ call[p].req # NoRequest =>
         /\ call[p].req.method = "HEAD"
         /\ call[p].req.url \in Range(workerSources)
         /\ call[p].req.body = "none"

\* a preview call probes the CDN source that an earlier call configured
C8_Witness ==
  \E c \in PreviewCalls :
    /\ call[c].pc = "precheck"
    /\ call[c].req = HeadRequest(workerSources[2])

(***************************************************************************)
(* The thumbnail cache.                                                    *)
(***************************************************************************)
\* a step of generatePageThumbnailWithCache or generatePageThumbnailsBatch
ThumbnailCallStep == tcall' # tcall \/ batch' # batch

\* an entry of the cache is gone after the step
EntryRemoved == ~ (DOMAIN thumbnailCache \subseteq DOMAIN thumbnailCache')

C5_CallsKeepEntries ==
  ThumbnailCallStep =>
    /\ ~ EntryRemoved
    /\ Cardinality(DOMAIN thumbnailCache') >= getThumbnailCacheSize

C5_OnlyClearRemoves ==
  EntryRemoved =>
    /\ ~ ThumbnailCallStep
    /\ Cardinality(DOMAIN thumbnailCache') = 0

\* C5: no step of generatePageThumbnailWithCache or generatePageThumbnailsBatch
\* removes an entry of the thumbnail cache or lowers getThumbnailCacheSize;
\* a step that removes an entry is clearThumbnailCache, and it leaves the
\* cache with size 0.
C5_NoEviction == [][C5_CallsKeepEntries /\ C5_OnlyClearRemoves]_vars

\* both calls have returned and left two entries in the cache
C5_Witness ==
  /\ tcall.pc = "done"
  /\ batch.pc = "done"
  /\ getThumbnailCacheSize >= 2

\* the key of the request that tcall holds
ThumbKey(t) == getThumbnailCacheKey(t.file.name, t.pageNumber, scale)

\* the step is a request to generatePageThumbnailWithCache (nothing of an
\* earlier request is in flight before it)
ThumbRequested == tcall.pc \in {"idle", "done"} /\ tcall' # tcall

\* a request with useCache for a key that is stored returns the stored
\* string and generates nothing; every other request generates
C6_ThumbAnswersFromCache ==
  ThumbRequested =>
    IF tcall'.useCache /\ ThumbKey(tcall') \in DOMAIN thumbnailCache
    THEN tcall'.pc = "done" /\ tcall'.result = thumbnailCache[ThumbKey(tcall')]
    ELSE tcall'.pc = "generating"

\* the step begins a batch of generatePageThumbnailsBatch
BatchBegun ==
  /\ batch'.pc = "running"
  /\ batch.pc # "running" \/ batch'.i # batch.i

C6_BatchAnswersFromCache ==
  BatchBegun =>
    \A pos \in 1 .. Len(batch'.pageNumbers) :
      (batch'.i < pos /\ pos <= batch'.i + batch'.batchSize) =>
        LET key == getThumbnailCacheKey(batch'.file.name,
                                        batch'.pageNumbers[pos], scale)
        IN  IF batch'.useCache /\ key \in DOMAIN thumbnailCache
            THEN /\ pos \notin batch'.pending
                 /\ pos \in DOMAIN batch'.got
                 /\ batch'.got[pos] = thumbnailCache[key]
            ELSE pos \in batch'.pending

\* the string stored under a key stays the one stored first, as long as the
\* key is stored (clearThumbnailCache is the only step that removes keys)
C6_StoredKept ==
  \A key \in DOMAIN thumbnailCache \cap DOMAIN thumbnailCache' :
    thumbnailCache'[key] = thumbnailCache[key]

\* C6: once a non-empty preview is stored for a file name, page number and
\* scale, every later request with useCache and the same three values is
\* answered from the cache, without generatePagePreview, by that identical
\* string, until clearThumbnailCache: requests for a stored key return what
\* is stored under it, and what is stored under it stays the string that
\* was stored first.
C6_Memoized ==
  [][C6_ThumbAnswersFromCache /\ C6_BatchAnswersFromCache /\ C6_StoredKept]_vars

\* requests for a stored key return what is stored under the key at the
\* time of the request, without generatePagePreview
C6_AnswersFromCache == [][C6_ThumbAnswersFromCache /\ C6_BatchAnswersFromCache]_vars

\* a request was answered from the cache while a batch that took one of its
\* pages from the cache is running
C6_Witness ==
  /\ tcall.pc = "done"
  /\ tcall.useCache
  /\ ThumbKey(tcall) \in DOMAIN thumbnailCache
  /\ tcall.result = thumbnailCache[ThumbKey(tcall)]
  /\ tcall.result # DataURL(tcall.file, tcall.pageNumber, scale)
  /\ batch.pc = "running"
  /\ batch.got # << >>
  /\ batch.pending # {}

(***************************************************************************)
(* The batches of generatePageThumbnailsBatch.                             *)
(***************************************************************************)
\* the generations in flight belong to one batch, the one that begins at
\* index i of pageNumbers, and are at most batchSize
C7_OneBatchInFlight ==
  batch.pc = "running" =>
    /\ \A pos \in batch.pending :
         batch.i < pos /\ pos <= batch.i + batch.batchSize
    /\ Cardinality(batch.pending) <= batch.batchSize

\* the call goes on to its next batch, or returns, only when no generation
\* of the batch before is in flight
C7_NextAfterSettled ==
  (batch.pc = "running" /\ (batch'.pc # "running" \/ batch'.i # batch.i))
    => batch.pending = {}

\* C7: generatePageThumbnailsBatch processes its batches one after another:
\* no page of a later batch starts generating before every page of the
\* batch before has settled, so at most batchSize generations of the call
\* are in flight.
C7_BatchesSequential == []C7_OneBatchInFlight /\ [][C7_NextAfterSettled]_vars

\* a later batch is in flight, the batch before it settled and stored
C7_Witness ==
  /\ batch.pc = "running"
  /\ batch.i >= 1
  /\ batch.pending # {}
  /\ DOMAIN batch.results # {}

(***************************************************************************)
(* The merge list.                                                         *)
(***************************************************************************)
\* the list holds at most 10 files, each of at most 100MB
C9_ListAtMostTen ==
  /\ Len(files) <= 10
  /\ \A i \in 1 .. Len(files) : files[i].size <= 100 * 1024 * 1024

\* handleMerge hands mergePDFs at most 10 files
C9_MergeAtMostTen == (~ isProcessing /\ isProcessing') => Len(files) <= 10

\* C9: after any sequence of selections, removals and reorders the merge
\* list holds at most 10 PDFs of at most 100MB each, and mergePDFs is never
\* invoked with more than 10 files.
C9_MergeLimit == []C9_ListAtMostTen /\ [][C9_MergeAtMostTen]_vars

\* mergePDFs is running on a list of 11 files
C9_Witness == isProcessing /\ Len(files) = 11

\* what does hold of the list: every file in it passed the size check
C9_SizesChecked == \A i \in 1 .. Len(files) : files[i].size <= maxSizePerFile

(***************************************************************************)
(* Splitting every N pages.                                                *)
(***************************************************************************)
\* the pages of the files of a result, one file after the other
RECURSIVE PagesInOrder(_)
PagesInOrder(results) ==
  IF results = << >> THEN << >>
  ELSE results[1].pages \o PagesInOrder(Tail(results))

\* k is the least whole number of files of n pages that hold p pages
IsCeil(k, p, n) == k >= 0 /\ k * n >= p /\ (k > 0 => (k - 1) * n < p)

\* a split every N pages, N >= 1, has resolved
EveryNSplitDone ==
  /\ split.pc = "done"
  /\ split.ok
  /\ split.options.everyN >= 1

\* C10: splitting a PDF of P pages every N pages (N >= 1) produces
\* ceil(P/N) files named _part_1 to _part_k; in order they hold the pages
\* 1..P consecutively, N pages a file except possibly the last, and every
\* page is in exactly one file.
C10_EveryNSplit ==
  EveryNSplitDone =>
    LET P == split.file.totalPages
        N == split.options.everyN
        r == split.results
        k == Len(r)
    IN  /\ IsCeil(k, P, N)
        /\ \A i \in 1 .. k :
             /\ r[i].name = "doc_part_" \o ToString(i) \o ".pdf"
             /\ i < k => Len(r[i].pages) = N
             /\ Len(r[i].pages) >= 1 /\ Len(r[i].pages) <= N
        /\ PagesInOrder(r) = [p \in 1 .. P |-> p]
        /\ \A p \in 1 .. P :
             Cardinality({ ij \in (1 .. k) \X (1 .. N) :
                             /\ ij[2] <= Len(r[ij[1]].pages)
                             /\ r[ij[1]].pages[ij[2]] = p }) = 1

\* a split whose last file is shorter than the ones before it
C10_Witness ==
  /\ EveryNSplitDone
  /\ split.options.everyN >= 2
  /\ Len(split.results) >= 2
  /\ Len(split.results[Len(split.results)].pages) < split.options.everyN

(***************************************************************************)
(* The compression levels.                                                 *)
(***************************************************************************)
\* the place of a level in the page's list: Low, Medium, High
LevelRank(id) == CHOOSE i \in 1 .. Len(compressionLevels) : compressionLevels[i].id = id

\* how hard save options press the file: pdf-lib packs the objects into
\* compressed object streams with useObjectStreams, and writes them plain
\* without; nothing else differs between the levels
SaveStrength(o) == IF o.useObjectStreams THEN 1 ELSE 0

\* C11: the save settings compressPDF applies for a level reduce size at
\* least as aggressively as those of every level the page lists as weaker
\* (Low <= Medium <= High).
C11_LevelsOrdered ==
  (compress.pc = "done" /\ compress.ok) =>
    \A id \in LevelIds :
      LevelRank(id) <= LevelRank(compress.quality) =>
        SaveStrength(SaveOptions(id)) <= SaveStrength(compress.saveOptions)

\* "High Compression" was chosen and the file saved without object streams
C11_Witness ==
  /\ compress.pc = "done"
  /\ compress.ok
  /\ compress.quality = "high"
  /\ ~ compress.saveOptions.useObjectStreams

(***************************************************************************)
(* Password protection.                                                    *)
(***************************************************************************)
\* a call with a password on a PDF that loads has ended
PasswordCallEnded ==
  /\ pw.pc = "done"
  /\ pw.file.loads
  /\ pw.userPassword # "" \/ pw.ownerPassword # ""

\* C12: whenever a user or an owner password is supplied, addPasswordToPDF
\* completes having reported progress 100 and returns the protected bytes,
\* and the page downloads protected_<name> and shows no error.
C12_Protects ==
  PasswordCallEnded =>
    /\ pw.ok
    /\ pw.progress = 100
    /\ pw.caller = "page" => (pw.download = "protected_" \o FileName(pw.file)
                              /\ pw.error = "")

\* the page asked for protection of a PDF that loads and shows the error
\* of addPasswordToPDF instead of a download
C12_Witness ==
  /\ PasswordCallEnded
  /\ pw.caller = "page"
  /\ ~ pw.ok
  /\ pw.error = NotSupported
  /\ pw.download = ""

\* what does hold: no call with a password ever resolves
C12_NeverProtects == PasswordCallEnded => (~ pw.ok /\ pw.download = "")

(***************************************************************************)
(* Rotation.                                                               *)
(***************************************************************************)
\* the rotate page has downloaded the rotated PDF
RotatedDownload == rotate.pc = "done" /\ rotate.ok

\* C13: in the rotated download every page whose accumulated rotation in
\* the UI is a (90, 180 or 270) is rotated by a relative to its orientation
\* in the input file, and pages whose accumulated rotation is 0 are as in
\* the input file.
C13_RotatedByAngle ==
  RotatedDownload =>
    /\ Len(rotate.doc) = Len(rotate.file.rotations)
    /\ \A i \in 1 .. Len(rotate.doc) :
         rotate.doc[i] = (rotate.file.rotations[i] + rotate.rotations[i]) % 360

\* a page stored with /Rotate 90 and turned by 90 in the UI is downloaded
\* with /Rotate 90, as it came
C13_Witness ==
  /\ RotatedDownload
  /\ \E i \in 1 .. Len(rotate.doc) :
       /\ rotate.file.rotations[i] = 90
       /\ rotate.rotations[i] = 90
       /\ rotate.doc[i] = 90

\* what does hold: a page turned in the UI gets its /Rotate set to the
\* accumulated angle, the others keep theirs
C13_RotationSet ==
  RotatedDownload =>
    /\ Len(rotate.doc) = Len(rotate.file.rotations)
    /\ \A i \in 1 .. Len(rotate.doc) :
         rotate.doc[i] = IF rotate.rotations[i] # 0 THEN rotate.rotations[i]
                         ELSE rotate.file.rotations[i]

\* the numbers of the list that name a page of doc
Existing(doc, pageNumbers) ==
  { pageNumbers[j] : j \in 1 .. Len(pageNumbers) } \cap (1 .. Len(doc))

\* the pages named in the list carry the angle, the others are as they came
RotatedAsListed ==
  /\ Len(rcall.doc) = Len(rcall.file.rotations)
  /\ \A i \in 1 .. Len(rcall.doc) :
       rcall.doc[i] = IF i \in Existing(rcall.doc, rcall.pageNumbers)
                      THEN rcall.angle ELSE rcall.file.rotations[i]

\* a call of rotatePDF has ended in which the PDF loaded and was saved
RcallEnded == rcall.pc = "done" /\ rcall.error # "pdf-lib"

\* C14: for any list of page numbers rotatePDF ignores those that name no
\* page (0, negative, above the page count), rotates the others and
\* resolves with the bytes instead of throwing.
C14_InvalidIgnored == RcallEnded => (rcall.ok /\ RotatedAsListed)

\* rotatePDF(file, [0], 90) on a file that loads has thrown a TypeError
C14_Witness ==
  /\ rcall.pc = "done"
  /\ rcall.file.loads
  /\ rcall.pageNumbers = << 0 >>
  /\ rcall.error = "TypeError"

\* what does hold: numbers above the page count are ignored, and a list
\* without a number below 1 does not make the call throw
C14_AboveIgnored ==
  (RcallEnded /\ \A j \in 1 .. Len(rcall.pageNumbers) : rcall.pageNumbers[j] >= 1)
    => (rcall.ok /\ RotatedAsListed)

(***************************************************************************)
(* FileDropZone.                                                           *)
(***************************************************************************)
\* the selection has too many files, or a file that is too large, or a
\* file that matches none of the accepted types
MustReject(dz) ==
  \/ Len(dz.offered) > dz.maxFiles
  \/ \E i \in 1 .. Len(dz.offered) :
       \/ dz.offered[i].size > dz.maxSizePerFile
       \/ /\ dz.offered[i].type \notin { "application/pdf" }
          /\ dz.offered[i].ext \notin { ".pdf", ".PDF" }

\* nothing was handed over and an error is shown
Rejected(dz) == dz.calls = 0 /\ dz.error # ""

\* onFilesSelected was called once with all the files in their order
Accepted(dz) == dz.calls = 1 /\ dz.selected = dz.offered /\ dz.error = ""

\* the claim as it is worded, for every selection: rejected as a whole with
\* an error, or else handed over whole
C15_AllOrNothingAlways ==
  dropZone.handled =>
    IF MustReject(dropZone) THEN Rejected(dropZone) ELSE Accepted(dropZone)

\* C15: FileDropZone accepts a selection all-or-nothing: with too many
\* files, a file above maxSizePerFile or a file of no accepted type (the
\* extension compared case-insensitively) onFilesSelected is not called
\* and one error is shown; otherwise, for a selection of at least one file,
\* it is called once with all the files in their order; an event without
\* files calls nothing and shows no error.
C15_AllOrNothing ==
  dropZone.handled =>
    IF MustReject(dropZone) THEN Rejected(dropZone)
    ELSE IF dropZone.offered # << >> THEN Accepted(dropZone)
    ELSE dropZone.calls = 0 /\ dropZone.error = ""

\* a selection of a good and a bad file was rejected whole, and one with a
\* capital extension was accepted
C15_Witness ==
  /\ dropZone.handled
  /\ Len(dropZone.offered) = 2
  /\ \/ /\ MustReject(dropZone)
        /\ Len(dropZone.offered) <= dropZone.maxFiles
        /\ \E i \in 1 .. 2 : dropZone.offered[i].stem = "a"
     \/ /\ Accepted(dropZone)
        /\ \E i \in 1 .. 2 : dropZone.offered[i].ext = ".PDF"

(***************************************************************************)
(* convertPdfToImages.                                                     *)
(***************************************************************************)
\* the entries of a sequence at the indices of a set, in order, from k on
RECURSIVE Pick(_, _, _)
Pick(seq, k, keep) ==
  IF k > Len(seq) THEN << >>
  ELSE IF k \in keep THEN << seq[k] >> \o Pick(seq, k + 1, keep)
  ELSE Pick(seq, k + 1, keep)

\* the pages asked for: the list, or every page when there is none
Requested(c) ==
  IF c.listed THEN c.pages ELSE [k \in 1 .. c.input.numPages |-> k]

\* the requested pages that exist in the PDF, in the order of the request
RequestedExisting(c) ==
  LET req == Requested(c)
  IN  Pick(req, 1, { k \in 1 .. Len(req) : req[k] \in 1 .. c.input.numPages })

\* the same, without those whose canvas gave no context or no blob
RequestedRendered(c) ==
  LET req == Requested(c)
  IN  Pick(req, 1, { k \in 1 .. Len(req) :
                      req[k] \in 1 .. c.input.numPages /\ k \notin c.dropped })

\* the result is one image for each page of a list, in order, named
\* <file>_page_<n>.<ext>
ImagesOf(c, list) ==
  /\ Len(c.results) = Len(list)
  /\ \A k \in 1 .. Len(list) :
       /\ c.results[k].page = list[k]
       /\ c.results[k].name =
            (IF c.input.ext = ".pdf" THEN c.input.stem ELSE c.input.stem \o c.input.ext)
              \o "_page_" \o ToString(list[k]) \o "." \o c.format

\* the claim as it is worded: a conversion of a PDF that loads, asked for
\* pages that exist or lie beyond the end, resolves with one image for
\* every requested page that exists
C16_OnePerExisting ==
  /\ imgcall.pc = "resolved" => ImagesOf(imgcall, RequestedExisting(imgcall))
  /\ imgcall.pc = "rejected" =>
       \/ ~ imgcall.input.loads
       \/ imgcall.error = "render"

\* C16: convertPdfToImages returns one image for each requested page that
\* exists in the PDF and whose canvas gave a 2D context and a blob, in
\* request order and named <file>_page_<n>.<ext>; requested pages beyond
\* the PDF's length are skipped without error; without a page list the
\* pages are 1..numPages; the call rejects when the PDF does not load, a
\* rendering fails or a requested number is below 1.
C16_OnePerRendered ==
  /\ imgcall.pc = "resolved" =>
       /\ ImagesOf(imgcall, RequestedRendered(imgcall))
       /\ \A k \in 1 .. Len(imgcall.pages) : imgcall.pages[k] >= 1
  /\ imgcall.pc = "rejected" =>
       \/ ~ imgcall.input.loads
       \/ imgcall.error = "render"
       \/ \E k \in 1 .. Len(imgcall.pages) : imgcall.pages[k] < 1

\* a list that names the last page and a page beyond the end gave the one
\* image of the last page
C16_Witness ==
  /\ imgcall.pc = "resolved"
  /\ imgcall.listed
  /\ \E k \in 1 .. Len(imgcall.pages) : imgcall.pages[k] > imgcall.input.numPages
  /\ \E k \in 1 .. Len(imgcall.pages) : imgcall.pages[k] = imgcall.input.numPages
  /\ Len(imgcall.results) = 1

(***************************************************************************)
(* convertImagesToPDF.                                                     *)
(***************************************************************************)
\* the indices of the files that can be embedded
Embeddable(c) == { j \in 1 .. Len(c.images) : c.images[j].intact }

\* the pages of the document are the embeddable files, one page each, in
\* the order of the files
OnePageEach(c) ==
  LET idx == Pick([j \in 1 .. Len(c.images) |-> j], 1, Embeddable(c))
  IN  /\ Len(c.docPages) = Len(idx)
      /\ \A j \in 1 .. Len(idx) : c.docPages[j].index = idx[j]

\* C17: convertImagesToPDF does not throw when an image cannot be
\* embedded: the failing file contributes no page, every other file is
\* processed in its order with one page each, and the call resolves with
\* the PDF bytes after reporting progress 100.  (It rejects only when the
\* bytes of a file cannot be read.)
C17_SkipsFailingImage ==
  /\ topdf.pc = "rejected" => \E j \in 1 .. Len(topdf.images) : ~ topdf.images[j].reads
  /\ topdf.returned <=> topdf.pc = "resolved"
  /\ topdf.pc = "resolved" =>
       /\ topdf.progress = [num |-> 100, den |-> 1]
       /\ OnePageEach(topdf)
  /\ (\A j \in 1 .. Len(topdf.images) : topdf.images[j].reads) =>
       topdf.pc \in { "idle", "loop", "saving", "resolved" }

\* a call with a corrupt image before an intact one resolved
C17_Witness ==
  /\ topdf.pc = "resolved"
  /\ Len(topdf.images) = 2
  /\ ~ topdf.images[1].intact
  /\ topdf.images[2].intact
  /\ Len(topdf.docPages) = 1

C18_DestroyedOnSuccess ==
  /\ previewDoc.destroyed = (IF previewDoc.status = "resolved" /\ previewDoc.result # "" THEN 1 ELSE 0)
  /\ previewDoc.destroyed <= previewDoc.loaded

(***************************************************************************)
(* The page organizer.                                                     *)
(***************************************************************************)
\* the page at list index i (from 0) has currentPosition i
Contiguous ==
  \A i \in 1 .. Len(pages) : pages[i].currentPosition = i - 1

\* a list without its positions
Cards(list) ==
  [i \in 1 .. Len(list) |->
     [id |-> list[i].id, originalPageNumber |-> list[i].originalPageNumber,
      operation |-> list[i].operation]]

\* the step is an edit of the given kind
Edited(op) == lastOp' = op /\ pages' # pages

\* the step put one card more into the list, right after a card it copies
CopiedInPlace ==
  /\ Len(pages') = Len(pages) + 1
  /\ \E k \in 1 .. Len(pages) :
       /\ \A i \in 1 .. k : Cards(pages')[i] = Cards(pages)[i]
       /\ \A i \in k + 1 .. Len(pages) : Cards(pages')[i + 1] = Cards(pages)[i]
       /\ pages'[k + 1].isDuplicate
       /\ pages'[k + 1].originalPageNumber = pages[k].originalPageNumber
       /\ pages'[k + 1].operation = pages[k].operation

DistinctIds(list) ==
  \A i, j \in 1 .. Len(list) : list[i].id = list[j].id => i = j

\* what does hold: positions are contiguous, a duplication adds its copy
\* right after the original, and a deletion removes the cards that bear
\* the id, which is one card as long as the ids are all different
C19_DeletesById ==
  /\ []Contiguous
  /\ [][/\ Edited("duplicate") => CopiedInPlace
        /\ Edited("delete") =>
             /\ Len(pages') < Len(pages)
             /\ DistinctIds(pages) => Len(pages') = Len(pages) - 1
             /\ \E i \in 1 .. Len(pages) :
                  Cards(pages') = Cards(FilterOut(pages, pages[i].id))]_vars

\* the ids stay different unless two duplications of one card read the
\* same Date.now()
C19_IdsDistinct == DistinctIds(pages)

(***************************************************************************)
(* Undoing the edits.                                                      *)
(***************************************************************************)
\* the list is the original pages 1..P in their order, each marked 'keep'
\* and none a duplicate
OriginalPages ==
  /\ Len(pages) = orgFile.pageCount
  /\ \A i \in 1 .. Len(pages) :
       /\ pages[i].originalPageNumber = i
       /\ pages[i].id = "page-" \o ToString(i)
       /\ pages[i].currentPosition = i - 1
       /\ pages[i].operation = "keep"
       /\ ~ pages[i].isDuplicate

\* C20: from any state of the page organizer reached by moves,
\* duplications and deletions, resetPages restores exactly the original
\* pages 1..P in their original order, each marked 'keep' and with no
\* duplicates; likewise resetRotations on the rotate page returns every
\* page's rotation to 0.
C20_ResetsRestore ==
  /\ lastOp = "reset" => OriginalPages
  /\ lastOp = "resetRotations" => \A i \in 1 .. Len(pageRotations) : pageRotations[i] = 0

\* the pages of a two-page file were reset after a duplication
C20_Witness ==
  /\ lastOp = "reset"
  /\ duplications > 0
  /\ orgFile.pageCount = 2
  /\ Len(pages) = 2

\* the rotations of a file with pages were reset
C20_RotationsReset ==
  /\ lastOp = "resetRotations"
  /\ Len(pageRotations) > 0

(***************************************************************************)
(* Progress reports.                                                       *)
(***************************************************************************)
\* a / b <= c / d for positive denominators
AtMost(x, y) == x.num * y.den <= y.num * x.den

\* C21: within one call of mergePDFs, splitPDF, compressPDF, rotatePDF,
\* organizePDFPages, addWatermarkToPDF, convertImagesToPDF or
\* convertPdfToImages the values passed to onProgress are non-decreasing
\* and stay within 0..100, and on success the last reported value is 100
\* with message 'Complete!'.
C21_ProgressMonotone ==
  LET calls == progressCall.calls
  IN  /\ \A j \in 1 .. Len(calls) :
           /\ calls[j].den > 0
           /\ calls[j].num >= 0
           /\ calls[j].num <= 100 * calls[j].den
      /\ \A j \in 1 .. Len(calls) - 1 : AtMost(calls[j], calls[j + 1])
      /\ progressCall.pc = "resolved" =>
           /\ calls # << >>
           /\ calls[Len(calls)].num = 100 * calls[Len(calls)].den
           /\ calls[Len(calls)].message = "Complete!"

\* a call whose loop reported a value that is not a whole number resolved
C21_Witness ==
  /\ progressCall.pc = "resolved"
  /\ \E j \in 1 .. Len(progressCall.calls) :
       /\ progressCall.calls[j].den = 3
       /\ progressCall.calls[j].num % 3 # 0

(***************************************************************************)
(* The test runners.                                                       *)
(***************************************************************************)
PhaseOrder ==
  << "ESLint Code Quality Check", "TypeScript Compilation", "Unit Tests (Vitest)",
     "Production Build", "E2E Tests (Playwright)" >>

\* the result of the command of that name in this run, "none" if it did not run
ResultOf(testName) ==
  IF \E j \in 1 .. Len(suite.ran) : suite.ran[j].name = testName
  THEN suite.ran[CHOOSE j \in 1 .. Len(suite.ran) : suite.ran[j].name = testName].result
  ELSE "none"

RanE2E == ResultOf("E2E Tests (Playwright)") # "none"

\* the phases run in the fixed order, and whatever lint, type check and
\* unit tests do, the production build runs
FixedOrder ==
  /\ \A j \in 1 .. Len(suite.ran) : suite.ran[j].name = PhaseOrder[j]
  /\ suite.pc \in { "e2e", "summary", "exited" } => Len(suite.ran) >= 4

\* C22: the runners execute the phases in the order lint, TypeScript
\* check, unit tests, production build, E2E; a failure of lint, type check
\* or unit tests never stops later phases; and the E2E phase runs if and
\* only if the production build succeeded.
C22_OrderAndE2EIffBuild ==
  /\ FixedOrder
  /\ suite.pc \in { "summary", "exited" } =>
       (RanE2E <=> ResultOf("Production Build") = "ok")

\* the PowerShell runner ran the E2E tests after a build that exited with
\* an error code
C22_Witness ==
  /\ suite.pc = "exited"
  /\ suite.kind = "powershell"
  /\ ResultOf("Production Build") = "exit1"
  /\ RanE2E

\* what holds of all three runners: the order, no early stop, and E2E runs
\* if and only if the runner did not record 'Production Build failed'
C22_OrderAndE2EIffNoRecordedFailure ==
  /\ FixedOrder
  /\ suite.pc \in { "summary", "exited" } =>
       (RanE2E <=> ~FailedBuild(suite.failedTests))

\* what holds of test-all.js and test-all.sh: E2E runs if and only if the
\* production build succeeded
C22_NodeAndBash ==
  (suite.kind \in { "node", "bash" } /\ suite.pc \in { "summary", "exited" }) =>
    (RanE2E <=> ResultOf("Production Build") = "ok")

====
